---- MODULE Spec2Model ----
(***************************************************************************)
(* FleetLogix ETL: the transform-and-load core.                            *)
(*                                                                         *)
(*   FA_load.py       upsert_to_snowflake (stage + MERGE),                 *)
(*                    upsert_to_snowflake_alternative (DELETE + INSERT),   *)
(*                    create_table_if_not_exists, load_complete_pipeline   *)
(*   FA_main.py       run_complete_etl                                     *)
(*   FA_transform.py  validate_data_quality                                *)
(*                                                                         *)
(* The warehouse table FACT_DELIVERIES is a bag of rows: the table is      *)
(* created by create_table_if_not_exists without any key constraint, so    *)
(* nothing but the reconciler's own logic keeps DELIVERY_ID unique.        *)
(* Every warehouse statement may fail (the warehouse is unreachable); a    *)
(* statement is atomic, and a `with engine.begin()` block is one           *)
(* transaction that is rolled back when a statement in it fails.           *)
(***************************************************************************)
EXTENDS Integers, Sequences, FiniteSets, Bags, TLC

(* ------------------------------ bounds --------------------------------- *)
MaxId == 2        \* delivery ids are 1..MaxId
MaxBatch == 2     \* rows in one incoming batch
MaxRuns == 2      \* calls of an entry point in one behaviour
MaxFaults == 1    \* warehouse statements that fail in one behaviour
MaxRaw == 2       \* rows in one batch handed to the validator
MaxOff == 2       \* cells of one such row that differ from the nominal row
MaxScored == 2    \* rows in one batch handed to calculate_quality_score
MaxKeyed == 1     \* rows in one batch handed to verify_dimension_keys
MaxProjCols == 3  \* columns of one batch handed to prepare_for_snowflake
MaxProjRows == 1  \* rows of such a batch
MaxPipeRows == 2  \* rows of the raw batch of a pipeline run
MaxDropped == 1   \* columns the raw batch of a pipeline run lacks
MaxVaried == 1    \* attributes in which a row of that batch differs from the usual delivery
MaxTimed == 2     \* rows in one batch handed to transform_delivery_data
MaxToUpdate == 1001   \* ids in delivery_ids_to_update when the DELETE loop is run at scale

(* ------------------------- program constants --------------------------- *)
batch_size == 500             \* FA_load.py:243, ids per DELETE statement

(* ------------------------------- data ---------------------------------- *)
Null == "NULL"
Ids == 1..MaxId
Columns == {"DELIVERY_ID", "DELIVERY_STATUS", "TRIP_STATUS"}
\* The column sets a projected batch can carry: prepare_for_snowflake keeps
\* the target columns that exist in its input.
ColSets == {{"DELIVERY_ID", "DELIVERY_STATUS", "TRIP_STATUS"},
            {"DELIVERY_ID", "DELIVERY_STATUS"}}
Statuses == {"delivered", "failed"}

\* A row of a DataFrame with columns cs; a column the frame lacks reads Null.
FrameRows(cs) ==
    {[DELIVERY_ID |-> i, DELIVERY_STATUS |-> s,
      TRIP_STATUS |-> IF "TRIP_STATUS" \in cs THEN "completed" ELSE Null] :
        i \in Ids, s \in Statuses}

SeqsUpTo(S, n) == UNION {[1..k -> S] : k \in 0..n}

\* The table is a bag, so the order of a frame's rows shows nowhere in it:
\* frames are taken with their rows in one order.
RowRank(r) == 2 * r.DELIVERY_ID + (IF r.DELIVERY_STATUS = "failed" THEN 1 ELSE 0)

Ordered(rs) == \A k \in 1..(Len(rs) - 1) : RowRank(rs[k]) <= RowRank(rs[k + 1])

Frames == UNION {{[cols |-> cs, rows |-> rs] :
                     rs \in {x \in SeqsUpTo(FrameRows(cs), MaxBatch) : Ordered(x)}} :
                 cs \in ColSets}

\* DataFrame.empty
empty(d) == Len(d.rows) = 0

\* pd.DataFrame()
NoFrame == [cols |-> {}, rows |-> <<>>]

(* --------------------------- bags of rows ------------------------------ *)
RECURSIVE SeqToBag(_)
SeqToBag(s) == IF s = <<>> THEN EmptyBag
               ELSE SetToBag({Head(s)}) (+) SeqToBag(Tail(s))

\* SELECT * FROM B WHERE DELIVERY_ID IN S / NOT IN S
RowsWithIdIn(B, S) == [r \in {x \in DOMAIN B : x.DELIVERY_ID \in S} |-> B[r]]

RowsWithIdNotIn(B, S) == [r \in {x \in DOMAIN B : x.DELIVERY_ID \notin S} |-> B[r]]

KeysOf(B) == {r.DELIVERY_ID : r \in BagToSet(B)}

\* COUNT(*) WHERE DELIVERY_ID = k
CountId(B, k) == BagCardinality(RowsWithIdIn(B, {k}))

RECURSIVE Unique(_)
\* Series.unique().tolist(): the distinct values in order of first appearance
Unique(s) == IF s = <<>> THEN <<>>
             ELSE <<Head(s)>> \o SelectSeq(Unique(Tail(s)), LAMBDA x : x # Head(s))

IdsOf(rows) == [k \in 1..Len(rows) |-> rows[k].DELIVERY_ID]

SeqRange(s) == {s[k] : k \in 1..Len(s)}

Min(a, b) == IF a < b THEN a ELSE b

(* ----------------------- the reconciler's steps ------------------------ *)
\* a partition made without the keys of the table
no_ids_fetched(rows) == {}

\* SELECT "DELIVERY_ID" FROM table, materialised as a set of ints
existing_ids_of(rows) == KeysOf(rows)

\* the mask without its negation: df['DELIVERY_ID'].isin(existing_ids)
isin_mask(r, existing) == r.DELIVERY_ID \in existing

\* new_records_mask = ~df['DELIVERY_ID'].isin(existing_ids)
new_records_mask(r, existing) == r.DELIVERY_ID \notin existing

new_df_of(d, existing) == SelectSeq(d.rows, LAMBDA r : new_records_mask(r, existing))

update_df_of(d, existing) == SelectSeq(d.rows, LAMBDA r : ~new_records_mask(r, existing))

\* pd.concat([new_df, update_df], ignore_index=True)
concat(a, b) == a \o b

\* to_sql(..., if_exists='append'): the frame's columns must exist in the table
to_sql_ok(tcols, dcols) == dcols \subseteq tcols

\* a to_sql that replaces the table's rows by the frame's
to_sql_replace(rows, frame) == SeqToBag(frame)

to_sql(rows, frame) == rows (+) SeqToBag(frame)

\* a matched row left as the target has it
update_keeps_target(t, s, cs) == t

\* MERGE ... WHEN MATCHED THEN UPDATE SET col = source.col for every frame
\* column but DELIVERY_ID
UpdateSet(t, s, cs) ==
    [c \in Columns |-> IF c \in cs \ {"DELIVERY_ID"} THEN s[c] ELSE t[c]]

\* WHEN NOT MATCHED THEN INSERT (frame columns) VALUES (source columns)
InsertValues(s, cs) == [c \in Columns |-> IF c \in cs THEN s[c] ELSE Null]

\* A target row matched by more than one source row: the store rejects the
\* MERGE as nondeterministic.
MergeAmbiguous(target, source) ==
    \E k \in KeysOf(target) : CountId(source, k) > 1

MergeMatched(target, source) ==
    RowsWithIdIn(target, KeysOf(source))

MergeInserted(target, source) ==
    RowsWithIdNotIn(source, KeysOf(target))

MergeRows(target, source, cs) ==
    BagOfAll(LAMBDA t : IF t.DELIVERY_ID \in KeysOf(source)
                        THEN UpdateSet(t, CHOOSE s \in BagToSet(source) :
                                              s.DELIVERY_ID = t.DELIVERY_ID, cs)
                        ELSE t,
             target)
    (+) BagOfAll(LAMBDA s : InsertValues(s, cs), MergeInserted(target, source))

\* result.rowcount of the MERGE: rows updated plus rows inserted
MergeRowcount(target, source) ==
    BagCardinality(MergeMatched(target, source))
    + BagCardinality(MergeInserted(target, source))

\* a DELETE that removes no row
delete_nothing(rows, batch_ids) == rows

\* DELETE FROM table WHERE "DELIVERY_ID" IN (batch_ids)
DeleteIn(rows, batch_ids) == RowsWithIdNotIn(rows, batch_ids)

\* result.rowcount of the DELETE
DeleteRowcount(rows, batch_ids) == BagCardinality(RowsWithIdIn(rows, batch_ids))

\* slices that all start at the head of the list
batch_ids_from_start(lst, i) == SeqRange(SubSeq(lst, 1, Min(i + batch_size, Len(lst))))

\* delivery_ids_to_update[i:i + batch_size]
batch_ids_at(lst, i) == SeqRange(SubSeq(lst, i + 1, Min(i + batch_size, Len(lst))))

(* ---------------- validate_data_quality (FA_transform.py:84) ----------- *)
\* A cell is {} (NaN, NaT, None) or {v}.  Durations are minutes, datetimes
\* minutes on one clock, distances hundredths of a km, weights kg, fuel
\* efficiency km per litre.
NaN == {}

notna(x) == x # NaN

\* a comparison with NaN is False
gt(x, n) == \E v \in x : v > n

lt(x, n) == \E v \in x : v < n

ge(x, n) == \E v \in x : v >= n

\* Series >= Series, element by element
ge_cells(x, y) == \E v \in x, w \in y : v >= w

Fields == {"delivery_duration_minutes", "delivery_distance_km", "package_weight_kg",
           "fuel_efficiency_km_per_liter", "delivered_datetime", "scheduled_datetime",
           "delivery_status", "vehicle_id", "driver_id"}

NominalRow ==
    [delivery_duration_minutes |-> {60}, delivery_distance_km |-> {499999},
     package_weight_kg |-> {0}, fuel_efficiency_km_per_liter |-> {10},
     delivered_datetime |-> {70}, scheduled_datetime |-> {10},
     delivery_status |-> {"delivered"}, vehicle_id |-> {1}, driver_id |-> {1}]

AllRawRows ==
    [delivery_duration_minutes : {{0}, {60}, {1440}, NaN},
     delivery_distance_km : {{0}, {499999}, {500000}, NaN},
     package_weight_kg : {{-1}, {0}, {10000}, NaN},
     fuel_efficiency_km_per_liter : {{0}, {10}, {50}, NaN},
     delivered_datetime : {{9}, {10}, {70}, NaN},
     scheduled_datetime : {{10}},
     delivery_status : {{"delivered"}, NaN},
     vehicle_id : {{1}, NaN},
     driver_id : {{1}, NaN}]

OffNominal(r) == Cardinality({f \in Fields : r[f] # NominalRow[f]})

RawRows == {r \in AllRawRows : OffNominal(r) <= MaxOff}

RawBatches == SeqsUpTo(RawRows, MaxRaw)

\* the mask with the distance bound taken inclusive (<= 5000 km)
valid_mask_inclusive(r) ==
    /\ gt(r.delivery_duration_minutes, 0)
    /\ lt(r.delivery_duration_minutes, 1440)
    /\ gt(r.delivery_distance_km, 0)
    /\ lt(r.delivery_distance_km, 500001)
    /\ ge(r.package_weight_kg, 0)
    /\ lt(r.package_weight_kg, 10000)
    /\ gt(r.fuel_efficiency_km_per_liter, 0)
    /\ lt(r.fuel_efficiency_km_per_liter, 50)
    /\ ge_cells(r.delivered_datetime, r.scheduled_datetime)
    /\ notna(r.delivery_status)
    /\ notna(r.vehicle_id)
    /\ notna(r.driver_id)

\* Lines 89-102: the combined mask, row by row.
valid_mask(r) ==
    /\ gt(r.delivery_duration_minutes, 0)
    /\ lt(r.delivery_duration_minutes, 1440)
    /\ gt(r.delivery_distance_km, 0)
    /\ lt(r.delivery_distance_km, 500000)
    /\ ge(r.package_weight_kg, 0)
    /\ lt(r.package_weight_kg, 10000)
    /\ gt(r.fuel_efficiency_km_per_liter, 0)
    /\ lt(r.fuel_efficiency_km_per_liter, 50)
    /\ ge_cells(r.delivered_datetime, r.scheduled_datetime)
    /\ notna(r.delivery_status)
    /\ notna(r.vehicle_id)
    /\ notna(r.driver_id)

\* Lines 105 and 113: df_clean = df[valid_mask].copy()
validate_data_quality(d) == SelectSeq(d, valid_mask)

(* --------------- calculate_quality_score (FA_transform.py:152) --------- *)
\* A batch of the transform is [cols, rows]: cols the column names in their
\* order, rows a sequence of functions from column name to cell.
has_column(d, c) == c \in SeqRange(d.cols)

RECURSIVE SumSeq(_)
SumSeq(s) == IF s = <<>> THEN 0 ELSE Head(s) + SumSeq(Tail(s))

\* df.isnull().sum().sum()
null_cells(d) ==
    SumSeq([k \in 1..Len(d.rows) |->
               Cardinality({c \in SeqRange(d.cols) : d.rows[k][c] = NaN})])

\* len(df) * len(df.columns)
total_cells(d) == Len(d.rows) * Len(d.cols)

\* the delay threshold taken at 300 minutes instead of 240
extreme_delay_300(d) ==
    IF has_column(d, "delay_minutes")
    THEN Cardinality({k \in 1..Len(d.rows) : gt(d.rows[k]["delay_minutes"], 300)})
    ELSE 0

\* the duration bounds taken inclusive (<= 30, >= 600)
extreme_duration_inclusive(d) ==
    IF has_column(d, "delivery_duration_minutes")
    THEN Cardinality({k \in 1..Len(d.rows) :
                         \/ lt(d.rows[k]["delivery_duration_minutes"], 31)
                         \/ gt(d.rows[k]["delivery_duration_minutes"], 599)})
    ELSE 0

\* Lines 161-163; 0 when the column is absent
extreme_efficiency(d) ==
    IF has_column(d, "fuel_efficiency_km_per_liter")
    THEN Cardinality({k \in 1..Len(d.rows) :
                         \/ lt(d.rows[k]["fuel_efficiency_km_per_liter"], 5)
                         \/ gt(d.rows[k]["fuel_efficiency_km_per_liter"], 30)})
    ELSE 0

\* Lines 167-169
extreme_duration(d) ==
    IF has_column(d, "delivery_duration_minutes")
    THEN Cardinality({k \in 1..Len(d.rows) :
                         \/ lt(d.rows[k]["delivery_duration_minutes"], 30)
                         \/ gt(d.rows[k]["delivery_duration_minutes"], 600)})
    ELSE 0

\* Lines 173-174
extreme_delay(d) ==
    IF has_column(d, "delay_minutes")
    THEN Cardinality({k \in 1..Len(d.rows) : gt(d.rows[k]["delay_minutes"], 240)})
    ELSE 0

\* The score is the fraction num / den with den = len(df) * len(df.columns):
\* 100 - nulls / den * 50 - e / len * 20 - d / len * 15 - l / len * 10.
score_num(d) ==
    100 * total_cells(d) - 50 * null_cells(d)
    - Len(d.cols) * (20 * extreme_efficiency(d) + 15 * extreme_duration(d)
                     + 10 * extreme_delay(d))

Max(a, b) == IF a > b THEN a ELSE b

\* Line 177: max(0, min(100, score)), of a batch with at least one cell
calculate_quality_score(d) ==
    [num |-> Max(0, Min(100 * total_cells(d), score_num(d))), den |-> total_cells(d)]

\* The batches handed to it: the three columns it reads, or some of them.
ScoreColumns == <<"fuel_efficiency_km_per_liter", "delivery_duration_minutes", "delay_minutes">>

ScoreColLists ==
    {SelectSeq(ScoreColumns, LAMBDA c : c \in S) : S \in SUBSET SeqRange(ScoreColumns)} \ {<<>>}

ScoreCells(c) ==
    CASE c = "fuel_efficiency_km_per_liter" -> {{4}, {5}, {30}, {31}, NaN}
      [] c = "delivery_duration_minutes" -> {{29}, {30}, {600}, {601}}
      [] c = "delay_minutes" -> {{240}, {300}, NaN}

ScoreRows(cs) ==
    {r \in [SeqRange(cs) -> UNION {ScoreCells(c) : c \in SeqRange(cs)}] :
        \A c \in SeqRange(cs) : r[c] \in ScoreCells(c)}

ScoreBatches ==
    UNION {{[cols |-> cs, rows |-> rs] : rs \in SeqsUpTo(ScoreRows(cs), MaxScored) \ {<<>>}} :
           cs \in ScoreColLists}

(* ---------------- verify_dimension_keys (FA_transform.py:115) ---------- *)
\* Lines 123-131: the keys of expected_keys, in their order
expected_keys == <<"date_key", "scheduled_time_key", "delivered_time_key", "vehicle_id",
                   "driver_id", "route_id", "customer_id">>

\* Lines 134-135
missing_keys(d) == SelectSeq(expected_keys, LAMBDA key : ~has_column(d, key))

existing_keys(d) == SelectSeq(expected_keys, LAMBDA key : has_column(d, key))

\* a verifier that fills every missing key column with nulls
keys_filled_in(d) ==
    [df |-> [cols |-> d.cols \o missing_keys(d),
             rows |-> [k \in 1..Len(d.rows) |->
                          [c \in SeqRange(d.cols) \cup SeqRange(expected_keys) |->
                              IF has_column(d, c) THEN d.rows[k][c] ELSE NaN]]],
     warned |-> missing_keys(d)]

\* Lines 137-150: the missing keys are printed, the ranges of the existing
\* ones are read and printed, df is returned.
verify_dimension_keys(d) == [df |-> d, warned |-> missing_keys(d)]

\* The batches handed to it: any of the expected keys, then delivery_id.
KeyColLists ==
    {SelectSeq(expected_keys, LAMBDA c : c \in S) \o <<"delivery_id">> :
        S \in SUBSET SeqRange(expected_keys)}

KeyBatches ==
    UNION {{[cols |-> cs, rows |-> rs] :
               rs \in SeqsUpTo([SeqRange(cs) -> {{1}, NaN}], MaxKeyed)} :
           cs \in KeyColLists}

(* ---------------- prepare_for_snowflake (FA_transform.py:272) ---------- *)
\* Lines 181-217
get_final_columns ==
    <<"date_key", "scheduled_time_key", "delivered_time_key", "vehicle_id", "driver_id",
      "route_id", "customer_id", "delivery_id", "trip_id", "tracking_number",
      "delivery_duration_minutes", "delay_minutes", "delivery_distance_km",
      "delivery_fuel_consumed", "package_weight_kg", "fuel_efficiency_km_per_liter",
      "revenue_per_delivery", "cost_per_delivery", "deliveries_per_hour", "is_on_time",
      "is_damaged", "has_signature", "delivery_status", "trip_status">>

\* str.upper() of the names above
UpperNames ==
    <<"DATE_KEY", "SCHEDULED_TIME_KEY", "DELIVERED_TIME_KEY", "VEHICLE_ID", "DRIVER_ID",
      "ROUTE_ID", "CUSTOMER_ID", "DELIVERY_ID", "TRIP_ID", "TRACKING_NUMBER",
      "DELIVERY_DURATION_MINUTES", "DELAY_MINUTES", "DELIVERY_DISTANCE_KM",
      "DELIVERY_FUEL_CONSUMED", "PACKAGE_WEIGHT_KG", "FUEL_EFFICIENCY_KM_PER_LITER",
      "REVENUE_PER_DELIVERY", "COST_PER_DELIVERY", "DELIVERIES_PER_HOUR", "IS_ON_TIME",
      "IS_DAMAGED", "HAS_SIGNATURE", "DELIVERY_STATUS", "TRIP_STATUS">>

IndexOf(lst, x) == CHOOSE i \in 1..Len(lst) : lst[i] = x

str_upper(c) == UpperNames[IndexOf(get_final_columns, c)]

\* Lines 296-298
dimension_keys == {"date_key", "scheduled_time_key", "delivered_time_key", "vehicle_id",
                   "driver_id", "route_id", "customer_id", "delivery_id", "trip_id"}

\* The columns whose cells are money in thousandths; every other number of
\* the model is a whole number of its unit (distances: hundredths of a km),
\* which round(2) leaves as it is.
Thousandths == {"revenue_per_delivery", "cost_per_delivery"}

\* Lines 300-304: round(2) of the numeric columns that are no dimension key
round_2(c, x) ==
    IF c \in Thousandths \ dimension_keys
    THEN {((v + 5) \div 10) * 10 : v \in x}
    ELSE x

\* Line 279
missing_cols(d) == SelectSeq(get_final_columns, LAMBDA col : ~has_column(d, col))

\* the available columns taken in the order the input has them
available_in_input_order(d) ==
    SelectSeq(d.cols, LAMBDA col : col \in SeqRange(get_final_columns))

\* Line 285 (and line 289, when nothing is missing)
available_cols(d) == SelectSeq(get_final_columns, LAMBDA col : has_column(d, col))

\* Lines 276-311
prepare_for_snowflake(d) ==
    [df |-> [cols |-> [i \in 1..Len(available_cols(d)) |-> str_upper(available_cols(d)[i])],
             rows |-> [k \in 1..Len(d.rows) |->
                          [C \in {str_upper(c) : c \in SeqRange(available_cols(d))} |->
                              LET c == CHOOSE x \in SeqRange(available_cols(d)) : str_upper(x) = C
                              IN  round_2(c, d.rows[k][c])]]],
     warned |-> missing_cols(d)]

\* The batches handed to it: up to MaxProjCols of these columns in any order.
ProjPool == {"trip_status", "delivery_id", "cost_per_delivery", "date_key", "data_quality_score"}

ProjColLists ==
    {cs \in SeqsUpTo(ProjPool, MaxProjCols) : \A i, j \in 1..Len(cs) : i # j => cs[i] # cs[j]}

ProjCells(c) ==
    CASE c = "trip_status" -> {{"completed"}, NaN}
      [] c = "delivery_id" -> {{1}}
      [] c = "cost_per_delivery" -> {{12344}, {12346}}
      [] c = "date_key" -> {{20260101}}
      [] c = "data_quality_score" -> {{100}}

RECURSIVE ProjRows(_)
ProjRows(cs) ==
    IF cs = <<>> THEN {<<>>}
    ELSE {(Head(cs) :> x) @@ r : x \in ProjCells(Head(cs)), r \in ProjRows(Tail(cs))}

ProjBatches ==
    UNION {{[cols |-> cs, rows |-> rs] : rs \in SeqsUpTo(ProjRows(cs), MaxProjRows)} :
           cs \in ProjColLists}

(* ------------- transform_delivery_data (FA_transform.py:21) ------------ *)
\* pd.DataFrame() on the transform's side
EmptyBatch == [cols |-> <<>>, rows |-> <<>>]

\* df[name] = cells: the column is overwritten, or appended as the last one
with_column(d, name, cells) ==
    [cols |-> IF has_column(d, name) THEN d.cols ELSE Append(d.cols, name),
     rows |-> [k \in 1..Len(d.rows) |->
                  [c \in SeqRange(d.cols) \cup {name} |->
                      IF c = name THEN cells[k] ELSE d.rows[k][c]]]]

\* Series - Series, NaN where either is
minus_cells(x, y) == {v - w : v \in x, w \in y}

\* the columns lines 33-63 read
metrics_reads == {"delivered_datetime", "scheduled_datetime", "delay_minutes",
                  "delivery_fuel_consumed", "delivery_distance_km", "delivery_status",
                  "revenue_per_delivery"}

\* Lines 33-36 and 40-43: delivered_datetime - scheduled_datetime, in minutes
duration_cells(d) ==
    [k \in 1..Len(d.rows) |->
        minus_cells(d.rows[k]["delivered_datetime"], d.rows[k]["scheduled_datetime"])]

\* punctuality read off the computed duration instead of delay_minutes
on_time_from_duration(d) ==
    [k \in 1..Len(d.rows) |->
        {\E v \in minus_cells(d.rows[k]["delivered_datetime"],
                               d.rows[k]["scheduled_datetime"]) : v <= 0}]

\* Line 47: delay_minutes <= 0, False for NaN
on_time_cells(d) ==
    [k \in 1..Len(d.rows) |-> {\E v \in d.rows[k]["delay_minutes"] : v <= 0}]

\* Lines 51-55: np.where(fuel > 0, distance / fuel, 0); the fuel figures of
\* the model divide the distances exactly
efficiency_cells(d) ==
    [k \in 1..Len(d.rows) |->
        IF gt(d.rows[k]["delivery_fuel_consumed"], 0)
        THEN {v \div w : v \in d.rows[k]["delivery_distance_km"],
                         w \in d.rows[k]["delivery_fuel_consumed"]}
        ELSE {0}]

\* Lines 59-63: np.where(delivery_status == 'delivered', revenue_per_delivery, 0)
revenue_cells(d) ==
    [k \in 1..Len(d.rows) |->
        IF d.rows[k]["delivery_status"] = {"delivered"}
        THEN d.rows[k]["revenue_per_delivery"]
        ELSE {0}]

\* Lines 33-63, steps 1 to 5: one derived column after the other, each for
\* every row of the frame
derive_metrics(d) ==
    with_column(
        with_column(
            with_column(
                with_column(
                    with_column(d, "delivery_duration_minutes", duration_cells(d)),
                    "delay_minutes_calculated", duration_cells(d)),
                "on_time_status", on_time_cells(d)),
            "fuel_efficiency_calculated", efficiency_cells(d)),
        "revenue_per_delivery_calculated", revenue_cells(d))

\* the columns the mask of lines 89-102 reads
validate_reads == Fields

\* Line 67: df = validate_data_quality(df)
validated(d) == [cols |-> d.cols, rows |-> validate_data_quality(d.rows)]

\* Line 74: datetime.now(), one clock value for the frame
now == 100

\* the score computed row by row, each row's from that row alone
score_of_each_row(d, sc) ==
    with_column(d, "data_quality_score",
                [k \in 1..Len(d.rows) |->
                    {calculate_quality_score([cols |-> d.cols, rows |-> <<d.rows[k]>>])}])

\* Line 75: df['data_quality_score'] = the scalar sc, on every row
broadcast_score(d, sc) ==
    with_column(d, "data_quality_score", [k \in 1..Len(d.rows) |-> {sc}])

\* Line 74
stamped(d) == with_column(d, "transformation_timestamp", [k \in 1..Len(d.rows) |-> {now}])

\* Lines 74-75
add_metadata(d) == broadcast_score(stamped(d), calculate_quality_score(stamped(d)))

(* ----------- transform_complete_pipeline (FA_transform.py:362) --------- *)
\* the columns analyze_transformed_data (lines 219-270) reads without
\* asking whether the frame has them
analyze_reads == {"is_on_time", "data_quality_score", "delivery_distance_km",
                  "delivery_duration_minutes", "delay_minutes", "delivery_fuel_consumed",
                  "fuel_efficiency_km_per_liter", "package_weight_kg",
                  "revenue_per_delivery", "cost_per_delivery"}

\* df[c] raises KeyError for a column the frame lacks
KeyError(d, reads) == \E c \in reads : ~has_column(d, c)

\* Lines 326-327
critical_keys == {"delivery_id", "vehicle_id", "driver_id", "date_key"}

\* validate_snowflake_compatibility (lines 313-360): False for a null in a
\* critical key the frame has; is_on_time is boolean in every batch of the
\* model, the other findings are printed only
validate_snowflake_compatibility(d) ==
    \A c \in critical_keys : has_column(d, c) =>
        \A k \in 1..Len(d.rows) : notna(d.rows[k][c])

\* DataFrame.empty: no rows or no columns
batch_empty(d) == Len(d.rows) = 0 \/ Len(d.cols) = 0

\* What the reconciler's model keeps of the projected batch: the three
\* columns of Columns, a null cell read as NULL.
cell_value(x) == IF x = NaN THEN Null ELSE CHOOSE v \in x : TRUE

loader_frame(d) ==
    [cols |-> SeqRange(d.cols) \cap Columns,
     rows |-> [k \in 1..Len(d.rows) |->
                  [c \in Columns |-> IF has_column(d, c) THEN cell_value(d.rows[k][c])
                                     ELSE Null]]]

\* The raw batch of a run: the columns of the extraction query
\* (FA_extract.py:237-296) that the transform and the load read, and date_key
\* (FA_extract.py:330).
extract_columns ==
    <<"delivery_id", "vehicle_id", "driver_id", "scheduled_datetime", "delivered_datetime",
      "package_weight_kg", "delivery_distance_km", "delivery_fuel_consumed", "delay_minutes",
      "fuel_efficiency_km_per_liter", "cost_per_delivery", "revenue_per_delivery",
      "is_on_time", "delivery_status", "trip_status", "date_key">>

\* the columns a Parquet file written by another extraction may lack
Droppable == {"trip_status", "cost_per_delivery", "package_weight_kg",
              "revenue_per_delivery", "date_key"}

PipeColLists ==
    {SelectSeq(extract_columns, LAMBDA c : c \notin S) :
        S \in {x \in SUBSET Droppable : Cardinality(x) <= MaxDropped}}

\* A delivery: its id there or null, delivered in time or before it was
\* scheduled, its date key there or null.
PipeRow(i, st, dl, dk) ==
    [delivery_id |-> i, vehicle_id |-> {1}, driver_id |-> {1},
     scheduled_datetime |-> {10}, delivered_datetime |-> dl,
     package_weight_kg |-> {0}, delivery_distance_km |-> {499999},
     delivery_fuel_consumed |-> {1}, delay_minutes |-> {0},
     fuel_efficiency_km_per_liter |-> {10}, cost_per_delivery |-> {12344},
     revenue_per_delivery |-> {20000}, is_on_time |-> {TRUE},
     delivery_status |-> {st}, trip_status |-> {"completed"}, date_key |-> dk]

Varied(i, st, dl, dk) ==
    Cardinality({1 : x \in {i} \ {{1}}} \cup {2 : x \in {st} \ {"delivered"}}
                \cup {3 : x \in {dl} \ {{70}}} \cup {4 : x \in {dk} \ {{20260101}}})

PipeRows ==
    {PipeRow(q[1], q[2], q[3], q[4]) :
        q \in {x \in ({{i} : i \in Ids} \cup {NaN}) \X Statuses \X {{70}, {9}} \X {{20260101}, NaN} :
                  Varied(x[1], x[2], x[3], x[4]) <= MaxVaried}}

restrict(r, cs) == [c \in SeqRange(cs) |-> r[c]]

PipeBatches ==
    UNION {{[cols |-> cs, rows |-> [k \in 1..Len(rs) |-> restrict(rs[k], cs)]] :
               rs \in SeqsUpTo(PipeRows, MaxPipeRows) \ {<<>>}} :
           cs \in PipeColLists}

\* transform_delivery_data as a whole (lines 21-82): what a call can give.
\* An empty frame comes back as it is (23-25); a column a statement reads
\* and the frame lacks raises (80-82); on a frame the validation emptied the
\* score divides by zero, which gives 100 or an error.
Returned(d) == [kind |-> "returned", df |-> d]

RaisedIn(d) == [kind |-> "raised", df |-> d]

transform_delivery_data(d) ==
    IF batch_empty(d) THEN {Returned(d)}
    ELSE IF KeyError(d, metrics_reads) THEN {RaisedIn(d)}
    ELSE IF KeyError(derive_metrics(d), validate_reads) THEN {RaisedIn(derive_metrics(d))}
    ELSE IF Len(validated(derive_metrics(d)).rows) = 0
         THEN {RaisedIn(validated(derive_metrics(d))),
               Returned(add_metadata(verify_dimension_keys(validated(derive_metrics(d))).df))}
         ELSE {Returned(add_metadata(verify_dimension_keys(validated(derive_metrics(d))).df))}

\* The batches handed to it: deliveries whose delivery time and whose
\* upstream delay vary independently, with and without the delay column.
TimedRow(dl, dm) ==
    [PipeRow({1}, "delivered", dl, {20260101}) EXCEPT !["delay_minutes"] = dm]

TimedRows == {TimedRow(dl, dm) : dl \in {{70}, {130}, {9}, NaN}, dm \in {{-5}, {0}, {1}, NaN}}

TimedColLists ==
    {extract_columns, SelectSeq(extract_columns, LAMBDA c : c # "delay_minutes")}

TimedBatches ==
    UNION {{[cols |-> cs, rows |-> [k \in 1..Len(rs) |-> restrict(rs[k], cs)]] :
               rs \in SeqsUpTo(TimedRows, MaxTimed)} :
           cs \in TimedColLists}

(* ------------------------------ state ---------------------------------- *)
VARIABLES
    table,        \* FACT_DELIVERIES: [exists, cols, rows]
    temp,         \* the TEMP_FACT_DELIVERIES_hhmmss staging table: [exists, rows]
    cfgOk,        \* get_snowflake_connection() returns an engine (settings.ini is usable)
    faults,       \* statements that have failed so far
    runs,         \* entry-point calls started so far
    caller,       \* who calls: "script" (the two upserts, directly) or "pipeline" (run_complete_etl)
    entry,        \* the entry point running: "none", "etl", "primary", "fallback"
    pc,           \* the position in it
    df,           \* the frame handed to the reconciler
    path,         \* the reconciler running or last run: "none", "primary", "fallback"
    existing_ids, new_df, update_df,   \* the reconciler's locals
    del_i, updated_count,              \* the fallback's DELETE loop
    ret,          \* what the last reconciler call returned: [success, new, updated, raised]
    outcome,      \* what the entry point returned: "running", "True", "False", "raised"
    raw,          \* run_complete_etl's raw batch: "none", "error", "empty", "rows"
    transformed,  \* transform_complete_pipeline's result: "none", "raise", "empty", "rows"
    \* history, read by the properties only
    pre,          \* the table's rows when the current reconciler call began
    last,         \* the reconciler call before the current one: [path, df, ok]
    cur,          \* the current reconciler call, same shape
    muts,         \* warehouse-mutating statements issued in this run
    pcalls, fcalls,   \* calls of the primary / fallback path in this run
    primary_ok,   \* what the primary path reported in this run: "none", "True", "False", "raised"
    stmt_failed,  \* a statement failed inside the current reconciler call
    unreachable,  \* ... and it failed because the warehouse could not be reached
    stmts,        \* the key reads and the writes the current reconciler call has issued, in order
    \* a call of validate_data_quality
    vpc,          \* "off", "call", "returned"
    raw_df,       \* the frame handed in
    clean_df,     \* the frame returned
    \* a call of one of the transform's functions on its own
    fpc,          \* "off", "call", "returned"
    fname,        \* the function called
    farg,         \* the batch handed in
    fres,         \* what it returned
    \* transform_complete_pipeline, statement by statement
    tin,          \* the raw batch handed in
    tdf,          \* the frame the transform holds
    stages,       \* history: the stages of this run's transform that have run, in order
    twarn,        \* the columns the projection's warning listed
    \* the DELETE loop of the alternative path, run on a long list of ids
    dpc,          \* "off", "loop", "insert", "done"
    d_ids,        \* delivery_ids_to_update
    d_i,          \* the loop variable i
    d_groups,     \* history: batch_ids of each DELETE issued, in order
    d_table       \* the target table as a bag of rows [DELIVERY_ID]

vars == <<table, temp, cfgOk, faults, runs, caller, entry, pc, df, path, existing_ids, new_df,
          update_df, del_i, updated_count, ret, outcome, raw, transformed, pre, last,
          cur, muts, pcalls, fcalls, primary_ok, stmt_failed, unreachable, stmts, vpc, raw_df,
          clean_df, fpc, fname, farg, fres, tin, tdf, stages, twarn, dpc, d_ids, d_i,
          d_groups, d_table>>

etlVars == <<table, temp, cfgOk, faults, runs, caller, entry, pc, df, path, existing_ids, new_df,
             update_df, del_i, updated_count, ret, outcome, raw, transformed, pre, last,
             cur, muts, pcalls, fcalls, primary_ok, stmt_failed, unreachable, stmts>>

valVars == <<vpc, raw_df, clean_df>>

funVars == <<fpc, fname, farg, fres>>

pipeVars == <<tin, tdf, stages, twarn>>

loopVars == <<dpc, d_ids, d_i, d_groups, d_table>>

\* what a run of the reconciler or of the orchestrator's own steps leaves alone
otherVars == <<valVars, funVars, pipeVars, loopVars>>

NoCall == [path |-> "none", df |-> NoFrame, ok |-> FALSE]
NoRet == [success |-> FALSE, new |-> 0, updated |-> 0, raised |-> FALSE]
Failure == [success |-> FALSE, new |-> 0, updated |-> 0, raised |-> FALSE]
Raised == [success |-> FALSE, new |-> 0, updated |-> 0, raised |-> TRUE]
Success(n, u) == [success |-> TRUE, new |-> n, updated |-> u, raised |-> FALSE]

locals == <<existing_ids, new_df, update_df, del_i, updated_count>>
etlHist == <<raw, transformed>>

(* --------------------------- initial state ----------------------------- *)
\* The table is absent, or was created empty by an earlier run with the
\* columns of that run's frame.
InitTables ==
    {[exists |-> FALSE, cols |-> {}, rows |-> EmptyBag]}
    \cup {[exists |-> TRUE, cols |-> cs, rows |-> EmptyBag] : cs \in ColSets}

InitVal ==
    /\ vpc = "off"
    /\ raw_df = <<>>
    /\ clean_df = <<>>

InitEtl ==
    /\ table \in InitTables
    /\ temp = [exists |-> FALSE, rows |-> EmptyBag]
    /\ cfgOk = TRUE
    /\ faults = 0
    /\ runs = 0
    /\ caller \in {"script", "pipeline"}
    /\ entry = "none"
    /\ pc = "idle"
    /\ df = NoFrame
    /\ path = "none"
    /\ existing_ids = {}
    /\ new_df = <<>>
    /\ update_df = <<>>
    /\ del_i = 0
    /\ updated_count = 0
    /\ ret = NoRet
    /\ outcome = "none"
    /\ raw = "none"
    /\ transformed = "none"
    /\ pre = EmptyBag
    /\ last = NoCall
    /\ cur = NoCall
    /\ muts = 0
    /\ pcalls = 0
    /\ fcalls = 0
    /\ primary_ok = "none"
    /\ stmt_failed = FALSE
    /\ unreachable = FALSE
    /\ stmts = <<>>

InitFun ==
    /\ fpc = "off"
    /\ fname = "none"
    /\ farg = NoFrame
    /\ fres = NoFrame

InitPipe ==
    /\ tin = EmptyBatch
    /\ tdf = EmptyBatch
    /\ stages = <<>>
    /\ twarn = <<>>

InitLoop ==
    /\ dpc = "off"
    /\ d_ids = <<>>
    /\ d_i = 0
    /\ d_groups = <<>>
    /\ d_table = EmptyBag

Init == InitEtl /\ InitVal /\ InitFun /\ InitPipe /\ InitLoop

(* ------------------- objects and in-place assignment ------------------- *)
\* A function's parameter names the object its caller holds ("caller") until
\* the function binds the name to an object of its own ("own").
\* a frame that is not copied: the same object under another name
same_object(o) == o

\* DataFrame.copy() (FA_transform.py:27, FA_load.py:103): a new object with
\* the values of o.  (The frames of FA_transform.py:103 and 287-289 are new
\* objects already: they come from df[mask] and df[cols].)
copy(o) == "own"

\* The caller's frame after df[c] = ... wrote v's columns through the object o:
\* the write shows in the caller's frame when o is the caller's object.
written_through(o, callers, v) == IF o = "caller" THEN v ELSE callers

\* convert_dataframe_types (FA_load.py:101-109) casts DELIVERY_ID to int64:
\* the ids of a frame are whole numbers within int64, the cast finds them so
astype_int64(x) == IF x \in Int THEN x ELSE Null

convert_dataframe_types(d) ==
    [d EXCEPT !.rows = [k \in 1..Len(d.rows) |->
                           [d.rows[k] EXCEPT !.DELIVERY_ID = astype_int64(@)]]]

(* ------------------------- calling an entry point ---------------------- *)
\* A caller invokes run_complete_etl(), upsert_to_snowflake(d) or
\* upsert_to_snowflake_alternative(d); settings.ini is usable or not.
Start(e, d, cfg) ==
    /\ pc \in {"idle", "done"}
    /\ runs < MaxRuns
    /\ caller = (IF e = "etl" THEN "pipeline" ELSE "script")
    /\ runs' = runs + 1
    /\ entry' = e
    /\ cfgOk' = cfg
    /\ df' = d
    /\ pc' = CASE e = "etl" -> "e_verify"
               [] e = "primary" -> "p_begin"
               [] e = "fallback" -> "f_begin"
    /\ outcome' = "running"
    /\ raw' = "none"
    /\ transformed' = "none"
    /\ muts' = 0
    /\ pcalls' = 0
    /\ fcalls' = 0
    /\ primary_ok' = "none"
    \* a new call frame: the locals and results of the call before are gone
    /\ path' = "none"
    /\ existing_ids' = {}
    /\ new_df' = <<>>
    /\ update_df' = <<>>
    /\ del_i' = 0
    /\ updated_count' = 0
    /\ ret' = NoRet
    /\ pre' = table.rows
    /\ last' = NoCall
    /\ stmt_failed' = FALSE
    /\ unreachable' = FALSE
    /\ stmts' = <<>>
    /\ temp' = [exists |-> FALSE, rows |-> EmptyBag]    \* engine.dispose() ended the session
    /\ UNCHANGED <<table, faults, caller, cur>>
    /\ UNCHANGED otherVars

StartEtl == \E cfg \in BOOLEAN : Start("etl", NoFrame, cfg)

StartPrimary == \E d \in Frames, cfg \in BOOLEAN : Start("primary", d, cfg)

StartFallback == \E d \in Frames, cfg \in BOOLEAN : Start("fallback", d, cfg)

(* ------------------------ returning from a path ------------------------ *)
\* A reconciler path p returns r (or raises): a direct call ends there,
\* load_complete_pipeline goes on at its line 380 or 384.
Return(p, r) ==
    /\ ret' = r
    /\ cur' = [path |-> p, df |-> df, ok |-> r.success]
    /\ primary_ok' = IF p = "primary"
                     THEN (IF r.raised THEN "raised" ELSE IF r.success THEN "True" ELSE "False")
                     ELSE primary_ok
    /\ IF entry = "etl"
       THEN /\ pc' = IF r.raised THEN "done"       \* caught at FA_main.py:188
                     ELSE IF p = "primary" THEN "l_after_primary" ELSE "l_after_fallback"
            /\ outcome' = IF r.raised THEN "False" ELSE outcome
       ELSE /\ pc' = "done"
            /\ outcome' = IF r.raised THEN "raised" ELSE IF r.success THEN "True" ELSE "False"

\* A warehouse statement succeeds, or fails while the fault budget lasts.
Stmt(ok) ==
    /\ ok \/ faults < MaxFaults
    /\ faults' = IF ok THEN faults ELSE faults + 1
    /\ unreachable' = (unreachable \/ ~ok)

(* ----------------- upsert_to_snowflake (FA_load.py:111) ---------------- *)
\* Lines 115-128: the empty check, convert_dataframe_types,
\* get_snowflake_connection (outside the try) and count_records_in_snowflake
\* (its own failure is swallowed, its result unused).
P_begin ==
    /\ pc = "p_begin"
    /\ stmts' = <<>>
    /\ path' = "primary"
    /\ pcalls' = pcalls + 1
    /\ pre' = table.rows
    /\ last' = cur
    /\ stmt_failed' = FALSE
    /\ unreachable' = FALSE
    /\ existing_ids' = {}
    /\ new_df' = <<>>
    /\ update_df' = <<>>
    /\ IF empty(df) THEN Return("primary", Failure)
       ELSE IF ~cfgOk THEN Return("primary", Raised)
       ELSE /\ pc' = "p_fetch"
            /\ cur' = [path |-> "primary", df |-> df, ok |-> FALSE]
            /\ UNCHANGED <<ret, outcome, primary_ok>>
    \* line 120: the cast is written into convert_dataframe_types' copy
    /\ df' = IF empty(df) THEN df
             ELSE written_through(copy("caller"), df, convert_dataframe_types(df))
    /\ UNCHANGED <<table, temp, cfgOk, faults, runs, caller, entry, del_i, updated_count,
                   muts, fcalls>>
    /\ UNCHANGED etlHist
    /\ UNCHANGED otherVars

\* Lines 130-140: fetch the existing ids, then split the frame.
P_fetch ==
    /\ pc = "p_fetch"
    /\ stmts' = Append(stmts, "select ids")
    /\ \E ok \in BOOLEAN :
        /\ Stmt(ok)
        /\ IF ok /\ table.exists
           THEN /\ existing_ids' = existing_ids_of(table.rows)
                /\ new_df' = new_df_of(df, existing_ids_of(table.rows))
                /\ update_df' = update_df_of(df, existing_ids_of(table.rows))
                /\ pc' = "p_temp"
                /\ UNCHANGED <<ret, cur, outcome, primary_ok, stmt_failed>>
           ELSE /\ Return("primary", Failure)
                /\ stmt_failed' = TRUE
                /\ UNCHANGED <<existing_ids, new_df, update_df>>
    /\ UNCHANGED <<table, temp, cfgOk, runs, caller, entry, df, path, del_i, updated_count,
                   pre, last, muts, pcalls, fcalls>>
    /\ UNCHANGED etlHist
    /\ UNCHANGED otherVars

\* Lines 143-149: CREATE TEMPORARY TABLE ... AS SELECT * FROM table WHERE 1=0.
P_temp ==
    /\ pc = "p_temp"
    /\ stmts' = Append(stmts, "create temp")
    /\ muts' = muts + 1
    /\ \E ok \in BOOLEAN :
        /\ Stmt(ok)
        /\ IF ok
           THEN /\ temp' = [exists |-> TRUE, rows |-> EmptyBag]
                /\ pc' = "p_stage"
                /\ UNCHANGED <<ret, cur, outcome, primary_ok, stmt_failed>>
           ELSE /\ Return("primary", Failure)
                /\ stmt_failed' = TRUE
                /\ UNCHANGED temp
    /\ UNCHANGED <<table, cfgOk, runs, caller, entry, df, path, locals, pre, last, pcalls, fcalls>>
    /\ UNCHANGED etlHist
    /\ UNCHANGED otherVars

\* a session that outlives the call: the staging table stays as it is
session_kept(t) == t

\* Lines 199-201, finally: engine.dispose() closes the session, and the
\* TEMPORARY table of the session goes with it.
dispose(t) == [exists |-> FALSE, rows |-> EmptyBag]

\* Lines 152-160: all rows (new, then update) go to the staging table.
P_stage ==
    /\ pc = "p_stage"
    /\ stmts' = Append(stmts, "stage")
    /\ muts' = muts + 1
    /\ \E ok \in BOOLEAN :
        /\ Stmt(ok)
        /\ IF ok /\ to_sql_ok(table.cols, df.cols)
           THEN /\ temp' = [temp EXCEPT !.rows = to_sql(temp.rows, concat(new_df, update_df))]
                /\ pc' = "p_merge"
                /\ UNCHANGED <<ret, cur, outcome, primary_ok, stmt_failed>>
           ELSE /\ Return("primary", Failure)
                /\ stmt_failed' = TRUE
                /\ temp' = dispose(temp)
    /\ UNCHANGED <<table, cfgOk, runs, caller, entry, df, path, locals, pre, last, pcalls, fcalls>>
    /\ UNCHANGED etlHist
    /\ UNCHANGED otherVars

\* new_records_count, updated_records_count of lines 187-189
merge_counts(before, after, rows_affected) ==
    Success(after - before, rows_affected - (after - before))

\* Lines 163-192, one transaction: COUNT, MERGE, DROP the staging table,
\* COUNT, the counts returned.
P_merge ==
    /\ pc = "p_merge"
    /\ stmts' = Append(stmts, "merge")
    /\ muts' = muts + 1
    /\ \E ok \in BOOLEAN :
        /\ Stmt(ok)
        /\ IF ok /\ ~MergeAmbiguous(table.rows, temp.rows)
           THEN /\ table' = [table EXCEPT !.rows = MergeRows(table.rows, temp.rows, df.cols)]
                /\ temp' = [exists |-> FALSE, rows |-> EmptyBag]
                /\ Return("primary",
                          merge_counts(BagCardinality(table.rows),
                                       BagCardinality(MergeRows(table.rows, temp.rows, df.cols)),
                                       MergeRowcount(table.rows, temp.rows)))
                /\ UNCHANGED stmt_failed
           ELSE /\ Return("primary", Failure)
                /\ stmt_failed' = TRUE
                /\ temp' = dispose(temp)
                /\ UNCHANGED table
    /\ UNCHANGED <<cfgOk, runs, caller, entry, df, path, locals, pre, last, pcalls, fcalls>>
    /\ UNCHANGED etlHist
    /\ UNCHANGED otherVars

(* ----------- upsert_to_snowflake_alternative (FA_load.py:203) ---------- *)
\* Lines 207-220.
F_begin ==
    /\ pc = "f_begin"
    /\ stmts' = <<>>
    /\ path' = "fallback"
    /\ fcalls' = fcalls + 1
    /\ pre' = table.rows
    /\ last' = cur
    /\ stmt_failed' = FALSE
    /\ unreachable' = FALSE
    /\ existing_ids' = {}
    /\ new_df' = <<>>
    /\ update_df' = <<>>
    /\ del_i' = 0
    /\ updated_count' = 0
    /\ IF empty(df) THEN Return("fallback", Failure)
       ELSE IF ~cfgOk THEN Return("fallback", Raised)
       ELSE /\ pc' = "f_fetch"
            /\ cur' = [path |-> "fallback", df |-> df, ok |-> FALSE]
            /\ UNCHANGED <<ret, outcome, primary_ok>>
    \* line 212: the cast is written into convert_dataframe_types' copy
    /\ df' = IF empty(df) THEN df
             ELSE written_through(copy("caller"), df, convert_dataframe_types(df))
    /\ UNCHANGED <<table, temp, cfgOk, faults, runs, caller, entry, muts, pcalls>>
    /\ UNCHANGED etlHist
    /\ UNCHANGED otherVars

\* after the split: the DELETE loop runs only for a non-empty update_df
after_split(upd) == IF Len(upd) > 0 THEN "f_delete" ELSE "f_insert"

\* Lines 222-236.
F_fetch ==
    /\ pc = "f_fetch"
    /\ stmts' = Append(stmts, "select ids")
    /\ \E ok \in BOOLEAN :
        /\ Stmt(ok)
        /\ IF ok /\ table.exists
           THEN /\ existing_ids' = existing_ids_of(table.rows)
                /\ new_df' = new_df_of(df, existing_ids_of(table.rows))
                /\ update_df' = update_df_of(df, existing_ids_of(table.rows))
                /\ pc' = after_split(update_df_of(df, existing_ids_of(table.rows)))
                /\ UNCHANGED <<ret, cur, outcome, primary_ok, stmt_failed>>
           ELSE /\ Return("fallback", Failure)
                /\ stmt_failed' = TRUE
                /\ UNCHANGED <<existing_ids, new_df, update_df>>
    /\ UNCHANGED <<table, temp, cfgOk, runs, caller, entry, df, path, del_i, updated_count,
                   pre, last, muts, pcalls, fcalls>>
    /\ UNCHANGED etlHist
    /\ UNCHANGED otherVars

\* delivery_ids_to_update = update_df['DELIVERY_ID'].unique().tolist()
delivery_ids_to_update(upd) == Unique(IdsOf(upd))

\* Lines 244-252: one pass of the loop, one DELETE in its own transaction.
F_delete ==
    /\ pc = "f_delete"
    /\ stmts' = Append(stmts, "delete")
    /\ muts' = muts + 1
    /\ \E ok \in BOOLEAN :
        /\ Stmt(ok)
        /\ IF ok
           THEN /\ table' = [table EXCEPT !.rows =
                       DeleteIn(table.rows, batch_ids_at(delivery_ids_to_update(update_df), del_i))]
                /\ updated_count' = updated_count
                       + DeleteRowcount(table.rows,
                                        batch_ids_at(delivery_ids_to_update(update_df), del_i))
                /\ del_i' = del_i + batch_size
                /\ pc' = IF del_i + batch_size < Len(delivery_ids_to_update(update_df))
                         THEN "f_delete" ELSE "f_insert"
                /\ UNCHANGED <<ret, cur, outcome, primary_ok, stmt_failed>>
           ELSE /\ Return("fallback", Failure)
                /\ stmt_failed' = TRUE
                /\ UNCHANGED <<table, del_i, updated_count>>
    /\ UNCHANGED <<temp, cfgOk, runs, caller, entry, df, path, existing_ids, new_df, update_df,
                   pre, last, pcalls, fcalls>>
    /\ UNCHANGED etlHist
    /\ UNCHANGED otherVars

\* new_records_count, updated_records_count of lines 271-272
alternative_counts(n, upd) == Success(Len(n), Len(upd))

\* Lines 257-275: insert all rows (new, then update); count_records_in_snowflake
\* swallows its own failure and its result is unused.
F_insert ==
    /\ pc = "f_insert"
    /\ stmts' = Append(stmts, "insert")
    /\ muts' = muts + 1
    /\ \E ok \in BOOLEAN :
        /\ Stmt(ok)
        /\ IF ok /\ to_sql_ok(table.cols, df.cols)
           THEN /\ table' = [table EXCEPT !.rows = to_sql(table.rows, concat(new_df, update_df))]
                /\ Return("fallback", alternative_counts(new_df, update_df))
                /\ UNCHANGED stmt_failed
           ELSE /\ Return("fallback", Failure)
                /\ stmt_failed' = TRUE
                /\ UNCHANGED table
    /\ UNCHANGED <<temp, cfgOk, runs, caller, entry, df, path, locals, pre, last, pcalls, fcalls>>
    /\ UNCHANGED etlHist
    /\ UNCHANGED otherVars

(* ------------------ run_complete_etl (FA_main.py:31) ------------------- *)
callState == <<path, locals, ret, pre, last, cur, pcalls, fcalls, primary_ok, stmt_failed,
               stmts>>

\* run_complete_etl returns False
EtlFails ==
    /\ pc' = "done"
    /\ outcome' = "False"

\* Lines 43-80: the staging directory and the source are there, and
\* verify_snowflake_connection() (it catches its own errors) says True.
E_verify ==
    /\ pc = "e_verify"
    /\ \E local \in BOOLEAN, ok \in BOOLEAN :
        /\ Stmt(ok)
        /\ IF local /\ ok /\ cfgOk
           THEN pc' = "e_extract" /\ UNCHANGED outcome
           ELSE EtlFails
    /\ UNCHANGED <<table, temp, cfgOk, runs, caller, entry, df, muts>>
    /\ UNCHANGED callState
    /\ UNCHANGED etlHist
    /\ UNCHANGED otherVars

\* where the run goes with the raw batch read at lines 84-126
after_extract(r) == IF r = "rows" THEN "e_transform" ELSE "done"

\* Lines 84-126: extract_main() and the newest Parquet file: an error (any
\* exception is caught at line 122), an empty batch, or rows.
E_extract ==
    /\ pc = "e_extract"
    /\ \E r \in {"error", "empty", "rows"} :
        /\ raw' = r
        /\ pc' = after_extract(r)
        /\ outcome' = IF after_extract(r) = "done" THEN "False" ELSE outcome
    /\ UNCHANGED <<table, temp, cfgOk, faults, runs, caller, entry, df, muts, transformed>>
    /\ UNCHANGED callState
    /\ UNCHANGED unreachable
    /\ UNCHANGED otherVars

\* a run that hands whatever frame the transform returned to the load
load_any_frame(t) == IF t = "raise" THEN "done" ELSE "l_verify"

\* a run without the except clause of line 149
transform_error_escapes == "raised"

\* where the run goes with transform_complete_pipeline's result, lines 130-153:
\* an exception is caught at line 149, an empty frame ends the run at line 134
after_transform(t) == IF t = "rows" THEN "l_verify" ELSE "done"

\* what run_complete_etl has returned once transform_complete_pipeline raised
on_transform_raise == "False"

\* transform_complete_pipeline (FA_transform.py:362): an empty raw frame comes
\* back from transform_delivery_data as it is (line 23) and ends as an empty
\* frame (line 372); rows are transformed, dropped altogether, or an error
\* is raised again (line 82).
transform_results(r) == IF r = "rows" THEN {"raise", "empty", "rows"} ELSE {"empty"}

\* Lines 130-153: transform_complete_pipeline(raw_data) raises, returns an
\* empty frame, or returns the projected frame.
E_transform ==
    /\ pc = "e_transform"
    /\ \E t \in transform_results(raw) :
        /\ transformed' = t
        /\ pc' = after_transform(t)
        /\ outcome' = IF t = "raise" THEN on_transform_raise
                      ELSE IF after_transform(t) = "done" THEN "False" ELSE outcome
        /\ IF t = "rows"
           THEN \E d \in Frames : ~empty(d) /\ df' = d
           ELSE df' = NoFrame
    /\ UNCHANGED <<table, temp, cfgOk, faults, runs, caller, entry, muts, raw>>
    /\ UNCHANGED callState
    /\ UNCHANGED unreachable
    /\ UNCHANGED otherVars

(* -------------- load_complete_pipeline (FA_load.py:348) ---------------- *)
\* FA_main.py:159 and FA_load.py:354-369: verify_snowflake_connection(), then
\* two reads whose own failures are swallowed (count_records_in_snowflake,
\* analyze_upsert_performance).
L_verify ==
    /\ pc = "l_verify"
    /\ \E ok \in BOOLEAN :
        /\ Stmt(ok)
        /\ IF ok /\ cfgOk
           THEN pc' = "l_create" /\ UNCHANGED outcome
           ELSE EtlFails
    /\ UNCHANGED <<table, temp, cfgOk, runs, caller, entry, df, muts>>
    /\ UNCHANGED callState
    /\ UNCHANGED etlHist
    /\ UNCHANGED otherVars

\* CREATE OR REPLACE TABLE: an existing table is replaced by an empty one
create_or_replace_table(t, d) == [exists |-> TRUE, cols |-> d.cols, rows |-> EmptyBag]

\* create_table_if_not_exists (FA_load.py:62): CREATE TABLE with the frame's
\* columns and no key constraint, unless the table is there.
create_table_if_not_exists(t, d) ==
    IF t.exists THEN t ELSE [exists |-> TRUE, cols |-> d.cols, rows |-> EmptyBag]

\* CREATE TABLE "t" () of a frame without columns is no statement the store takes
create_ok(t, d) == t.exists \/ d.cols # {}

\* Lines 371-374.
L_create ==
    /\ pc = "l_create"
    /\ muts' = IF table.exists THEN muts ELSE muts + 1
    /\ \E ok \in BOOLEAN :
        /\ Stmt(ok)
        /\ IF ok /\ create_ok(table, df)
           THEN /\ table' = create_table_if_not_exists(table, df)
                /\ pc' = "p_begin"
                /\ UNCHANGED outcome
           ELSE /\ EtlFails
                /\ UNCHANGED table
    /\ UNCHANGED <<temp, cfgOk, runs, caller, entry, df>>
    /\ UNCHANGED callState
    /\ UNCHANGED etlHist
    /\ UNCHANGED otherVars

\* a load that calls the primary path again when the alternative has failed
retry_primary(r) == IF ~r.success THEN "p_begin" ELSE "l_check"

\* a load that runs the alternative whatever the primary path reported
always_alternative(r) == "f_begin"

\* Lines 378-382: the alternative runs when the primary path reported failure.
after_primary(r) == IF ~r.success THEN "f_begin" ELSE "l_check"

L_after_primary ==
    /\ pc = "l_after_primary"
    /\ pc' = after_primary(ret)
    /\ UNCHANGED <<table, temp, cfgOk, faults, runs, caller, entry, df, outcome, muts>>
    /\ UNCHANGED callState
    /\ UNCHANGED etlHist
    /\ UNCHANGED unreachable
    /\ UNCHANGED otherVars

\* Lines 384-386: the alternative's own result decides.
after_fallback(r) == IF ~r.success THEN "done" ELSE "l_check"

L_after_fallback ==
    /\ pc = "l_after_fallback"
    /\ pc' = after_fallback(ret)
    /\ outcome' = IF after_fallback(ret) = "done" THEN "False" ELSE outcome
    /\ UNCHANGED <<table, temp, cfgOk, faults, runs, caller, entry, df, muts>>
    /\ UNCHANGED callState
    /\ UNCHANGED etlHist
    /\ UNCHANGED unreachable
    /\ UNCHANGED otherVars

\* a load that turns a discrepancy of the counts into a failure
strict_integrity(records_before, new_records, records_after) ==
    IF records_after = records_before + new_records THEN "True" ELSE "False"

\* FA_load.py:396-404: expected_total is compared with records_after; the
\* branch of the discrepancy prints it and returns True as the other does
validate_integrity(records_before, new_records, records_after) ==
    IF records_after = records_before + new_records THEN "True" ELSE "True"

\* FA_load.py:388-405 and FA_main.py:165-183: the counts are read and
\* printed; a discrepancy is only reported, the result is True.  The rows
\* counted at line 360 are the rows the table held when the path that
\* succeeded began: a primary path that failed left them as they were.
L_check ==
    /\ pc = "l_check"
    /\ pc' = "done"
    /\ outcome' = validate_integrity(BagCardinality(pre), ret.new, BagCardinality(table.rows))
    /\ UNCHANGED <<table, temp, cfgOk, faults, runs, caller, entry, df, muts>>
    /\ UNCHANGED callState
    /\ UNCHANGED etlHist
    /\ UNCHANGED unreachable
    /\ UNCHANGED otherVars

(* --------------------------- specification ----------------------------- *)
Next ==
    \/ StartEtl
    \/ StartPrimary
    \/ StartFallback
    \/ P_begin
    \/ P_fetch
    \/ P_temp
    \/ P_stage
    \/ P_merge
    \/ F_begin
    \/ F_fetch
    \/ F_delete
    \/ F_insert
    \/ E_verify
    \/ E_extract
    \/ E_transform
    \/ L_verify
    \/ L_create
    \/ L_after_primary
    \/ L_after_fallback
    \/ L_check

Spec == Init /\ [][Next]_vars

(* ------------------- the validator, called on a frame ------------------ *)
InitValidate ==
    /\ InitEtl
    /\ caller = "script"
    /\ ~table.exists
    /\ vpc = "call"
    /\ raw_df \in RawBatches
    /\ clean_df = <<>>
    /\ InitFun
    /\ InitPipe
    /\ InitLoop

V_validate ==
    /\ vpc = "call"
    /\ clean_df' = validate_data_quality(raw_df)
    /\ vpc' = "returned"
    /\ UNCHANGED raw_df
    /\ UNCHANGED etlVars
    /\ UNCHANGED funVars
    /\ UNCHANGED pipeVars
    /\ UNCHANGED loopVars

NextValidate == V_validate

SpecValidate == InitValidate /\ [][NextValidate]_vars

(* ------------- the transform's functions, each called on a batch ------- *)
InitCalls ==
    /\ InitEtl
    /\ caller = "script"
    /\ ~table.exists
    /\ InitVal
    /\ InitPipe
    /\ InitLoop
    /\ fpc = "call"
    /\ fres = NoFrame
    /\ \/ fname = "calculate_quality_score" /\ farg \in ScoreBatches
       \/ fname = "verify_dimension_keys" /\ farg \in KeyBatches
       \/ fname = "prepare_for_snowflake" /\ farg \in ProjBatches
       \/ fname = "transform_delivery_data" /\ farg \in TimedBatches

C_score ==
    /\ fpc = "call"
    /\ fname = "calculate_quality_score"
    /\ fres' = calculate_quality_score(farg)
    /\ fpc' = "returned"
    /\ UNCHANGED <<fname, farg>>
    /\ UNCHANGED etlVars
    /\ UNCHANGED valVars
    /\ UNCHANGED pipeVars
    /\ UNCHANGED loopVars

C_keys ==
    /\ fpc = "call"
    /\ fname = "verify_dimension_keys"
    /\ fres' = verify_dimension_keys(farg)
    /\ fpc' = "returned"
    /\ UNCHANGED <<fname, farg>>
    /\ UNCHANGED etlVars
    /\ UNCHANGED valVars
    /\ UNCHANGED pipeVars
    /\ UNCHANGED loopVars

C_prepare ==
    /\ fpc = "call"
    /\ fname = "prepare_for_snowflake"
    /\ fres' = prepare_for_snowflake(farg)
    /\ fpc' = "returned"
    /\ UNCHANGED <<fname, farg>>
    /\ UNCHANGED etlVars
    /\ UNCHANGED valVars
    /\ UNCHANGED pipeVars
    /\ UNCHANGED loopVars

C_transform ==
    /\ fpc = "call"
    /\ fname = "transform_delivery_data"
    /\ fres' \in transform_delivery_data(farg)
    /\ fpc' = "returned"
    /\ UNCHANGED <<fname, farg>>
    /\ UNCHANGED etlVars
    /\ UNCHANGED valVars
    /\ UNCHANGED pipeVars
    /\ UNCHANGED loopVars

NextCalls ==
    \/ C_score
    \/ C_keys
    \/ C_prepare
    \/ C_transform

SpecCalls == InitCalls /\ [][NextCalls]_vars

(* ------- run_complete_etl with the transform statement by statement ---- *)
\* a transform that goes from the validation straight to the score
after_step_without_keys(p) ==
    CASE p = "t_metrics" -> "t_validate"
      [] p = "t_validate" -> "t_score"
      [] p = "t_keys" -> "t_score"
      [] p = "t_score" -> "t_analyze"
      [] p = "t_analyze" -> "t_compat"
      [] p = "t_compat" -> "t_project"

\* The statement that follows: FA_transform.py:33-75 in transform_delivery_data,
\* then lines 377, 380 and 387 of transform_complete_pipeline.
after_step(p) ==
    CASE p = "t_metrics" -> "t_validate"
      [] p = "t_validate" -> "t_keys"
      [] p = "t_keys" -> "t_score"
      [] p = "t_score" -> "t_analyze"
      [] p = "t_analyze" -> "t_compat"
      [] p = "t_compat" -> "t_project"

TransformSteps == {"t_metrics", "t_validate", "t_keys", "t_score", "t_analyze", "t_compat",
                   "t_project"}

\* what a statement of the transform leaves alone
T_frame ==
    /\ UNCHANGED <<table, temp, cfgOk, faults, runs, caller, entry, muts, raw>>
    /\ UNCHANGED callState
    /\ UNCHANGED unreachable
    /\ UNCHANGED valVars
    /\ UNCHANGED funVars
    /\ UNCHANGED loopVars

\* FA_transform.py:80-82 and FA_main.py:149-153: the error is raised again
\* and caught by run_complete_etl
T_raises ==
    /\ transformed' = "raise"
    /\ pc' = "done"
    /\ outcome' = on_transform_raise
    /\ df' = NoFrame

\* FA_transform.py:372-374, 382-384, 389-391: return pd.DataFrame(), which
\* run_complete_etl tests at FA_main.py:134
T_returns_empty ==
    /\ transformed' = "empty"
    /\ pc' = after_transform("empty")
    /\ outcome' = IF after_transform("empty") = "done" THEN "False" ELSE outcome
    /\ df' = NoFrame

T_goes_on ==
    /\ pc' = after_step(pc)
    /\ UNCHANGED <<transformed, outcome, df>>

\* FA_main.py:108-110, 130 and FA_transform.py:23-28: the batch read from the
\* newest Parquet file (it is not empty: FA_main.py:113) is copied.
T_begin ==
    /\ pc = "e_transform"
    /\ \E b \in PipeBatches :
        /\ tin' = b
        /\ tdf' = b
    /\ stages' = <<>>
    /\ twarn' = <<>>
    /\ pc' = "t_metrics"
    /\ UNCHANGED <<transformed, outcome, df>>
    /\ T_frame

\* FA_transform.py:33-63
T_metrics ==
    /\ pc = "t_metrics"
    /\ stages' = Append(stages, "metric calculation")
    /\ IF KeyError(tdf, metrics_reads)
       THEN T_raises /\ UNCHANGED <<tin, tdf>>
       ELSE /\ tdf' = derive_metrics(tdf)
            \* the columns are assigned into the copy of line 27
            /\ tin' = written_through(copy("caller"), tin, derive_metrics(tdf))
            /\ T_goes_on
    /\ UNCHANGED twarn
    /\ T_frame

\* FA_transform.py:67
T_validate ==
    /\ pc = "t_validate"
    /\ stages' = Append(stages, "validation")
    /\ IF KeyError(tdf, validate_reads)
       THEN T_raises /\ UNCHANGED tdf
       ELSE tdf' = validated(tdf) /\ T_goes_on
    /\ UNCHANGED <<tin, twarn>>
    /\ T_frame

\* FA_transform.py:71
T_keys ==
    /\ pc = "t_keys"
    /\ stages' = Append(stages, "key verification")
    /\ tdf' = verify_dimension_keys(tdf).df
    /\ T_goes_on
    /\ UNCHANGED <<tin, twarn>>
    /\ T_frame

\* FA_transform.py:74-78 and 372-374.  On a frame without rows the score
\* divides by zero: numpy gives nan, min and max turn it into 100 and the
\* empty frame is returned; a build whose division raises ends at line 82.
T_score ==
    /\ pc = "t_score"
    /\ stages' = Append(stages, "quality score")
    /\ IF Len(tdf.rows) = 0
       THEN \/ T_raises /\ UNCHANGED tdf
            \/ tdf' = add_metadata(tdf) /\ T_returns_empty
       ELSE tdf' = add_metadata(tdf) /\ T_goes_on
    \* the two columns are assigned into the frame validate_data_quality built (line 103)
    /\ UNCHANGED <<tin, twarn>>
    /\ T_frame

\* FA_transform.py:377: analyze_transformed_data only prints; transform_complete_pipeline
\* has no try, its KeyError is caught at FA_main.py:149
T_analyze ==
    /\ pc = "t_analyze"
    /\ stages' = Append(stages, "analysis")
    /\ IF KeyError(tdf, analyze_reads) THEN T_raises ELSE T_goes_on
    /\ UNCHANGED <<tin, tdf, twarn>>
    /\ T_frame

\* FA_transform.py:380-384
T_compat ==
    /\ pc = "t_compat"
    /\ stages' = Append(stages, "compatibility check")
    /\ IF validate_snowflake_compatibility(tdf) THEN T_goes_on ELSE T_returns_empty
    /\ UNCHANGED <<tin, tdf, twarn>>
    /\ T_frame

\* FA_transform.py:387-394 and FA_main.py:130-147
T_project ==
    /\ pc = "t_project"
    /\ stages' = Append(stages, "projection")
    /\ tdf' = prepare_for_snowflake(tdf).df
    /\ twarn' = prepare_for_snowflake(tdf).warned
    /\ IF batch_empty(prepare_for_snowflake(tdf).df)
       THEN T_returns_empty
       ELSE /\ transformed' = "rows"
            /\ df' = loader_frame(prepare_for_snowflake(tdf).df)
            /\ pc' = after_transform("rows")
            /\ UNCHANGED outcome
    /\ UNCHANGED tin
    /\ T_frame

InitPipeline == Init /\ caller = "pipeline"

NextPipeline ==
    \/ StartEtl
    \/ E_verify
    \/ E_extract
    \/ T_begin
    \/ T_metrics
    \/ T_validate
    \/ T_keys
    \/ T_score
    \/ T_analyze
    \/ T_compat
    \/ T_project
    \/ L_verify
    \/ L_create
    \/ P_begin
    \/ P_fetch
    \/ P_temp
    \/ P_stage
    \/ P_merge
    \/ L_after_primary
    \/ F_begin
    \/ F_fetch
    \/ F_delete
    \/ F_insert
    \/ L_after_fallback
    \/ L_check

SpecPipeline == InitPipeline /\ [][NextPipeline]_vars

(* ------ the DELETE loop and the insert (FA_load.py:234-267) at scale ---- *)
\* update_df holds one row for each of the ids 1..n, all of them in the
\* table, which also holds a row (id 0) that is not in the batch.
IdRow(k) == [DELIVERY_ID |-> k]

InitDeleteLoop ==
    /\ InitEtl
    /\ caller = "script"
    /\ ~table.exists
    /\ InitVal
    /\ InitFun
    /\ InitPipe
    /\ dpc = "loop"
    /\ d_ids \in {[k \in 1..n |-> k] : n \in 1..MaxToUpdate}
    /\ d_i = 0
    /\ d_groups = <<>>
    /\ d_table = SetToBag({IdRow(k) : k \in 0..Len(d_ids)})

\* Lines 244-252: one pass of the loop
D_delete ==
    /\ dpc = "loop"
    /\ d_i < Len(d_ids)
    /\ d_groups' = Append(d_groups, batch_ids_at(d_ids, d_i))
    /\ d_table' = DeleteIn(d_table, batch_ids_at(d_ids, d_i))
    /\ d_i' = d_i + batch_size
    /\ UNCHANGED <<dpc, d_ids>>
    /\ UNCHANGED etlVars
    /\ UNCHANGED valVars
    /\ UNCHANGED funVars
    /\ UNCHANGED pipeVars

\* range(0, len(delivery_ids_to_update), batch_size) is exhausted
D_exit ==
    /\ dpc = "loop"
    /\ d_i >= Len(d_ids)
    /\ dpc' = "insert"
    /\ UNCHANGED <<d_ids, d_i, d_groups, d_table>>
    /\ UNCHANGED etlVars
    /\ UNCHANGED valVars
    /\ UNCHANGED funVars
    /\ UNCHANGED pipeVars

\* Lines 257-267: the one to_sql of all rows, which are pairwise distinct here
D_insert ==
    /\ dpc = "insert"
    /\ d_table' = d_table (+) SetToBag({IdRow(d_ids[k]) : k \in 1..Len(d_ids)})
    /\ dpc' = "done"
    /\ UNCHANGED <<d_ids, d_i, d_groups>>
    /\ UNCHANGED etlVars
    /\ UNCHANGED valVars
    /\ UNCHANGED funVars
    /\ UNCHANGED pipeVars

NextDeleteLoop ==
    \/ D_delete
    \/ D_exit
    \/ D_insert

SpecDeleteLoop == InitDeleteLoop /\ [][NextDeleteLoop]_vars

(* ============================ properties =============================== *)
\* A reconciler call of this run has returned and nothing has run since.
CallReturned ==
    /\ path # "none"
    /\ cur.path = path
    /\ pc \in {"l_after_primary", "l_after_fallback", "l_check", "done"}

\* The batch of the current call repeats the batch of the call before it,
\* on the same path, and that call had reported success.
SecondCall ==
    /\ CallReturned
    /\ last.ok
    /\ last.path = cur.path
    /\ last.df = cur.df

\* The table both paths leave when every statement of theirs succeeds.
primary_result(rows, d) ==
    MergeRows(rows,
              SeqToBag(concat(new_df_of(d, existing_ids_of(rows)),
                              update_df_of(d, existing_ids_of(rows)))),
              d.cols)

alternative_result(rows, d) ==
    to_sql(DeleteIn(rows, SeqRange(delivery_ids_to_update(
                                       update_df_of(d, existing_ids_of(rows))))),
           concat(new_df_of(d, existing_ids_of(rows)),
                  update_df_of(d, existing_ids_of(rows))))

\* C1: a second call with the identical batch, after a successful first
\* call and with the warehouse reachable, reports success with new_count = 0
\* and updated_count = the number of rows of the batch, and leaves the
\* table's content as the first call left it.
C1_Idempotence ==
    (SecondCall /\ cfgOk /\ ~unreachable) =>
        /\ ret.success
        /\ ret.new = 0
        /\ ret.updated = Len(df.rows)
        /\ table.rows = pre

\* C2: the target table holds at most one row per delivery_id: the number
\* of distinct delivery_id values equals the number of rows.
C2_PrimaryKeyUniqueness ==
    Cardinality(KeysOf(table.rows)) = BagCardinality(table.rows)

\* C3: with E the target's keys when the call began and B the batch's keys,
\* the rows classified new are exactly the batch rows with id in B \ E, the
\* rows classified update exactly those with id in B \cap E; after a
\* successful call the target's keys are E \cup B, and every row with id in
\* B \cap E holds, in the batch's columns, the values of a batch row.
C3_PartitionCorrectness ==
    /\ pc \in {"p_temp", "p_stage", "p_merge", "f_delete", "f_insert"}
         \/ (CallReturned /\ ret.success) =>
        /\ \A k \in 1..Len(new_df) : new_df[k].DELIVERY_ID \in SeqRange(IdsOf(df.rows)) \ KeysOf(pre)
        /\ \A k \in 1..Len(update_df) :
               update_df[k].DELIVERY_ID \in SeqRange(IdsOf(df.rows)) \cap KeysOf(pre)
        /\ SeqToBag(new_df) (+) SeqToBag(update_df) = SeqToBag(df.rows)
    /\ (CallReturned /\ ret.success) =>
        /\ KeysOf(table.rows) = KeysOf(pre) \cup SeqRange(IdsOf(df.rows))
        /\ \A t \in BagToSet(table.rows) :
               t.DELIVERY_ID \in SeqRange(IdsOf(df.rows)) \cap KeysOf(pre) =>
                   \E k \in 1..Len(df.rows) : \A c \in df.cols : t[c] = df.rows[k][c]

\* a successful call that classified some rows as new and some as update
C3_Reached ==
    /\ CallReturned
    /\ ret.success
    /\ new_df # <<>>
    /\ update_df # <<>>
    /\ KeysOf(pre) # {}

\* C4: from the same table state and with the same batch, a successful
\* primary path and a successful fallback path leave the same table content,
\* also when the batch carries a subset of the table's columns.
C4_PathEquivalence ==
    (CallReturned /\ ret.success /\ ~MergeAmbiguous(pre, SeqToBag(df.rows))) =>
        /\ table.rows = primary_result(pre, df)
        /\ table.rows = alternative_result(pre, df)

\* C5: after a successful call on either path, the table's row count is its
\* row count before the call plus the reported new_count.
C5_CountAccounting ==
    (CallReturned /\ ret.success) =>
        BagCardinality(table.rows) = BagCardinality(pre) + ret.new

\* C6: in load_complete_pipeline the fallback runs if and only if the
\* primary path reported success = False, at most once; the primary path
\* runs at most once; when the fallback fails too the load reports failure.
C6_FallbackExactlyOnce ==
    entry = "etl" =>
        /\ pcalls <= 1
        /\ fcalls <= 1
        /\ fcalls = 1 => (pcalls = 1 /\ primary_ok = "False")
        /\ (primary_ok = "False" /\ pc \notin {"l_after_primary", "f_begin"}) => fcalls = 1
        /\ (pc = "done" /\ fcalls = 1 /\ ~ret.success) => outcome = "False"
        /\ (pc = "done" /\ outcome = "True") => ret.success

\* both paths have failed and the run has reported failure
C6_Reached ==
    /\ entry = "etl"
    /\ pc = "done"
    /\ pcalls = 1
    /\ fcalls = 1
    /\ ~ret.success
    /\ outcome = "False"

\* C7: when the batch is empty (the raw batch, or the batch the transform
\* leaves), the run has returned failure and no warehouse-mutating statement
\* was issued in it; a reconciler called with an empty frame issues none
\* either and reports failure.
C7_EmptyBatchShortCircuit ==
    /\ (entry = "etl" /\ (raw = "empty" \/ transformed = "empty")) =>
        /\ muts = 0
        /\ pc = "done"
        /\ outcome = "False"
    /\ (entry \in {"primary", "fallback"} /\ empty(df)) =>
        /\ muts = 0
        /\ table.rows = pre
        /\ pc = "done" => outcome = "False"

\* a run whose rows were all dropped by the transform has ended
C7_Reached ==
    /\ entry = "etl"
    /\ raw = "rows"
    /\ transformed = "empty"
    /\ pc = "done"

C9_NoPartialChange ==
    (CallReturned /\ stmt_failed) =>
        /\ ~ret.success
        /\ table.rows = pre

\* The predicate C10 states, cell by cell.
C10_Keeps(r) ==
    /\ \E v \in r.delivery_duration_minutes : 0 < v /\ v < 1440
    /\ \E v \in r.delivery_distance_km : 0 < v /\ v < 500000
    /\ \E v \in r.package_weight_kg : 0 <= v /\ v < 10000
    /\ \E v \in r.fuel_efficiency_km_per_liter : 0 < v /\ v < 50
    /\ \E v \in r.delivered_datetime : \E w \in r.scheduled_datetime : v >= w
    /\ r.delivery_status # NaN
    /\ r.vehicle_id # NaN
    /\ r.driver_id # NaN

\* C10: the validator returns exactly the rows for which all predicates
\* hold, in their order and as they were; a row with distance 5000 or 0 is
\* not among them, an otherwise valid row with distance 4999.99 is.
C10_ValidatorPredicate ==
    vpc = "returned" =>
        /\ clean_df = SelectSeq(raw_df, C10_Keeps)
        /\ \A k \in 1..Len(clean_df) :
               clean_df[k].delivery_distance_km \notin {{0}, {500000}}
        /\ \A k \in 1..Len(raw_df) :
               raw_df[k] = NominalRow => \E j \in 1..Len(clean_df) : clean_df[j] = NominalRow

\* a row with distance 5000 was dropped next to a row with 4999.99 kept
C10_Reached ==
    /\ vpc = "returned"
    /\ raw_df = <<[NominalRow EXCEPT !.delivery_distance_km = {500000}], NominalRow>>
    /\ clean_df = <<NominalRow>>

\* A batch whose cells are all set and whose metrics are within the good
\* bounds: fuel efficiency in [5, 30], duration in [30, 600], delay <= 240.
GoodRow(d, r) ==
    /\ \A c \in SeqRange(d.cols) : r[c] # NaN
    /\ has_column(d, "fuel_efficiency_km_per_liter") =>
           \A v \in r["fuel_efficiency_km_per_liter"] : 5 <= v /\ v <= 30
    /\ has_column(d, "delivery_duration_minutes") =>
           \A v \in r["delivery_duration_minutes"] : 30 <= v /\ v <= 600
    /\ has_column(d, "delay_minutes") => \A v \in r["delay_minutes"] : v <= 240

GoodBatch(d) == \A k \in 1..Len(d.rows) : GoodRow(d, d.rows[k])

\* farg is a good batch followed by one row with delay_minutes = 300 that
\* is otherwise within the good bounds.
DelayInjected ==
    /\ Len(farg.rows) >= 2
    /\ has_column(farg, "delay_minutes")
    /\ GoodBatch([farg EXCEPT !.rows = SubSeq(farg.rows, 1, Len(farg.rows) - 1)])
    /\ farg.rows[Len(farg.rows)]["delay_minutes"] = {300}
    /\ GoodRow(farg, [farg.rows[Len(farg.rows)] EXCEPT !["delay_minutes"] = {240}])

\* C13: a batch without null cells and with every metric within the good
\* bounds scores exactly 100; the batch with one more row, delay_minutes =
\* 300 and otherwise good, scores strictly less than 100.
C13_ScoreMonotonicity ==
    (fpc = "returned" /\ fname = "calculate_quality_score") =>
        /\ GoodBatch(farg) => fres.num = 100 * fres.den
        /\ DelayInjected =>
            /\ calculate_quality_score(
                   [farg EXCEPT !.rows = SubSeq(farg.rows, 1, Len(farg.rows) - 1)]).num
                 = 100 * (Len(farg.rows) - 1) * Len(farg.cols)
            /\ fres.num < 100 * fres.den

\* the score of a good batch with the late row added has been returned
C13_Reached ==
    /\ fpc = "returned"
    /\ fname = "calculate_quality_score"
    /\ DelayInjected
    /\ Len(farg.cols) = 3

\* The counts C20 names, read off the batch.
C20_Nulls == Cardinality({<<k, c>> \in (1..Len(farg.rows)) \X SeqRange(farg.cols) :
                             farg.rows[k][c] = {}})

C20_BadFuel ==
    Cardinality({k \in 1..Len(farg.rows) :
                    /\ "fuel_efficiency_km_per_liter" \in SeqRange(farg.cols)
                    /\ \E v \in farg.rows[k]["fuel_efficiency_km_per_liter"] : v < 5 \/ v > 30})

C20_BadDuration ==
    Cardinality({k \in 1..Len(farg.rows) :
                    /\ "delivery_duration_minutes" \in SeqRange(farg.cols)
                    /\ \E v \in farg.rows[k]["delivery_duration_minutes"] : v < 30 \/ v > 600})

C20_Late ==
    Cardinality({k \in 1..Len(farg.rows) :
                    /\ "delay_minutes" \in SeqRange(farg.cols)
                    /\ \E v \in farg.rows[k]["delay_minutes"] : v > 240})

\* C20: the score returned for a non-empty batch of n rows and m columns is
\* 100 - 50 * nulls / (n * m) - 20 * badfuel / n - 15 * badduration / n
\* - 10 * late / n, within [0, 100]; here multiplied through by n * m.
C20_ScoreFormula ==
    (fpc = "returned" /\ fname = "calculate_quality_score") =>
        /\ fres.den = Len(farg.rows) * Len(farg.cols)
        /\ fres.num >= 0
        /\ fres.num <= 100 * fres.den
        /\ LET v == 100 * fres.den - 50 * C20_Nulls
                    - Len(farg.cols) * (20 * C20_BadFuel + 15 * C20_BadDuration + 10 * C20_Late)
           IN  fres.num = IF v < 0 THEN 0 ELSE IF v > 100 * fres.den THEN 100 * fres.den ELSE v

\* a score with all four deductions has been returned
C20_Reached ==
    /\ fpc = "returned"
    /\ fname = "calculate_quality_score"
    /\ C20_Nulls > 0
    /\ C20_BadFuel > 0
    /\ C20_BadDuration > 0
    /\ C20_Late > 0
    /\ fres.num < 100 * fres.den

\* C17: verify_dimension_keys returns the batch it was given, with the same
\* columns, the same rows and the same values; an expected key that is
\* missing on entry is missing on return and is only listed in the warning.
KeysReturned == fpc = "returned" /\ fname = "verify_dimension_keys"

C17_KeyVerifierReadOnly ==
    KeysReturned =>
        /\ fres.df.cols = farg.cols
        /\ Len(fres.df.rows) = Len(farg.rows)
        /\ \A k \in 1..Len(farg.rows) : \A c \in SeqRange(farg.cols) :
               fres.df.rows[k][c] = farg.rows[k][c]
        /\ \A i \in 1..Len(expected_keys) :
               ~has_column(farg, expected_keys[i]) =>
                   /\ ~has_column(fres.df, expected_keys[i])
                   /\ expected_keys[i] \in SeqRange(fres.warned)

C17_Reached ==
    /\ KeysReturned
    /\ Len(farg.rows) > 0
    /\ ~has_column(farg, "date_key")
    /\ has_column(farg, "vehicle_id")
    /\ "date_key" \in SeqRange(fres.warned)

\* C19: prepare_for_snowflake returns the columns of the target list that the
\* input has, in the order of the target list, upper-cased, with as many rows
\* as the input; the target columns the input lacks are listed in a warning.
ProjectReturned == fpc = "returned" /\ fname = "prepare_for_snowflake"

C19_SchemaProjection ==
    ProjectReturned =>
        /\ SeqRange(fres.df.cols) =
               {UpperNames[i] : i \in {j \in 1..Len(get_final_columns) :
                                           get_final_columns[j] \in SeqRange(farg.cols)}}
        /\ \A i, j \in 1..Len(fres.df.cols) :
               i < j => IndexOf(UpperNames, fres.df.cols[i]) < IndexOf(UpperNames, fres.df.cols[j])
        /\ SeqRange(fres.df.cols) \cap SeqRange(get_final_columns) = {}
        /\ Len(fres.df.rows) = Len(farg.rows)
        /\ SeqRange(fres.warned) = SeqRange(get_final_columns) \ SeqRange(farg.cols)

C19_Reached ==
    /\ ProjectReturned
    /\ farg.cols = <<"data_quality_score", "trip_status", "date_key">>
    /\ fres.df.cols = <<"DATE_KEY", "TRIP_STATUS">>
    /\ Len(fres.df.rows) = 1
    /\ "delivery_id" \in SeqRange(fres.warned)

ReconcilerWrites == pc \in {"p_merge", "f_delete", "f_insert"}

\* C16 (as amended): no step other than the reconciler's merge and
\* delete+insert changes the rows of the target table, and the table's
\* existence is changed by one step only, the CREATE TABLE of the load, which
\* runs when the table is absent and creates it without rows.
C16_OnlyReconcilerChangesRows ==
    [][/\ table'.rows # table.rows => ReconcilerWrites
       /\ table'.exists # table.exists =>
              /\ pc = "l_create"
              /\ ~table.exists
              /\ table'.exists
              /\ table'.rows = EmptyBag]_vars

\* a pipeline run whose load has just created the table, before any
\* statement of the reconciler
C16_Reached ==
    /\ entry = "etl"
    /\ transformed = "rows"
    /\ pc = "p_begin"
    /\ muts = 1
    /\ table.exists
    /\ table.rows = EmptyBag

\* C16 (as stated): every step other than the reconciler's merge and
\* delete+insert leaves the table's rows and its existence unchanged.
C16_OnlyReconcilerMutates ==
    [][(table'.rows # table.rows \/ table'.exists # table.exists) => ReconcilerWrites]_vars

(* ------------------ the pipeline, statement by statement --------------- *)
\* stages is the trace of the transform of the run in progress
TransformCurrent == entry = "etl" /\ (pc \in TransformSteps \/ transformed # "none")

StageOrder == <<"metric calculation", "validation", "key verification", "quality score",
                "analysis", "compatibility check", "projection">>

IsPrefix(a, b) == Len(a) <= Len(b) /\ \A i \in 1..Len(a) : a[i] = b[i]

Ran(st) == st \in SeqRange(stages)

\* the validation of this run has run and left no row
EmptiedByValidation == TransformCurrent /\ Ran("validation") /\ Len(tdf.rows) = 0

\* C11 (as amended): a run ends failed when the raw batch is empty, when the
\* validation removes every row, when the projection leaves nothing, and
\* when both paths of the reconciler report failure.  In each case neither a
\* projection nor a load follows the failure and no stage runs twice; after a
\* validation that removed every row the key verification and the quality
\* score still run on the empty frame before the run fails.  A batch that
\* gets as far as the projection always keeps some column.
C11_FailureAndHalt ==
    /\ (entry = "etl" /\ raw = "empty") =>
           /\ pc = "done" /\ outcome = "False"
           /\ transformed = "none" /\ pcalls = 0 /\ fcalls = 0 /\ muts = 0
    /\ EmptiedByValidation =>
           /\ pc \in {"t_keys", "t_score", "done"}
           /\ pc = "done" => outcome = "False"
           /\ ~Ran("analysis") /\ ~Ran("projection")
           /\ pcalls = 0 /\ fcalls = 0 /\ muts = 0
    /\ (TransformCurrent /\ Ran("projection")) =>
           /\ Len(tdf.cols) > 0
           /\ batch_empty(tdf) => (pc = "done" /\ outcome = "False" /\ pcalls = 0)
    /\ (entry = "etl" /\ primary_ok = "False" /\ path = "fallback"
            /\ pc \in {"l_after_fallback", "done"} /\ ~ret.success) =>
           /\ pc = "done" => outcome = "False"
           /\ pcalls = 1 /\ fcalls = 1
    /\ entry = "etl" => (pcalls <= 1 /\ fcalls <= 1)
    /\ TransformCurrent => \A i, j \in 1..Len(stages) : stages[i] = stages[j] => i = j

\* a failed run whose validation removed every row and whose key
\* verification ran after it
C11_Reached ==
    /\ EmptiedByValidation
    /\ pc = "done"
    /\ outcome = "False"
    /\ Ran("key verification")
    /\ Ran("quality score")

\* C11 (as stated): once the validation has removed every row, no later
\* stage is executed.
C11_NoLaterStage ==
    EmptiedByValidation => stages[Len(stages)] = "validation"

\* C12 (as amended): the stages of a run execute one after the other in the
\* order metric calculation, validation, key verification, quality score,
\* analysis, compatibility check, projection, and the reconciler is called
\* only after all of them; the metrics are derived for every row of the raw
\* batch, before the validation, which reads the derived duration.
C12_StageOrder ==
    /\ TransformCurrent => IsPrefix(stages, StageOrder)
    /\ (entry = "etl" /\ (pcalls > 0 \/ fcalls > 0 \/ pc \in {"l_verify", "l_create", "p_begin"})) =>
           (transformed = "rows" /\ stages = StageOrder)
    /\ (entry = "etl" /\ pc = "t_validate") =>
           /\ stages = <<"metric calculation">>
           /\ Len(tdf.rows) = Len(tin.rows)
           /\ \A k \in 1..Len(tdf.rows) :
                  tdf.rows[k]["delivery_duration_minutes"] =
                      minus_cells(tin.rows[k]["delivered_datetime"],
                                  tin.rows[k]["scheduled_datetime"])

\* a run that reached the reconciler after its validation removed a row
\* for which the metrics had been derived
C12_Reached ==
    /\ entry = "etl"
    /\ pcalls > 0
    /\ stages = StageOrder
    /\ Len(tin.rows) = 2
    /\ Len(tdf.rows) = 1

\* C12 (as stated): validation, then metric calculation, then key
\* verification, then projection.
C12_ValidationFirst ==
    TransformCurrent =>
        IsPrefix(SelectSeq(stages, LAMBDA st : st \in {"validation", "metric calculation",
                                                      "key verification", "projection"}),
                 <<"validation", "metric calculation", "key verification", "projection">>)

\* the batch transform_delivery_data returned at line 78 is the frame held
\* while the analysis, the compatibility check and the projection are due
DeliveryDataReturned == entry = "etl" /\ pc \in {"t_analyze", "t_compat", "t_project"}

without_column(d, name) ==
    [cols |-> SelectSeq(d.cols, LAMBDA c : c # name),
     rows |-> [k \in 1..Len(d.rows) |-> [c \in SeqRange(d.cols) \ {name} |-> d.rows[k][c]]]]

C15_SchemaMismatchRecoverable ==
    (entry = "etl" /\ pc = "done" /\ transformed = "raise"
        /\ missing_cols(tin) # <<>> /\ available_cols(tin) # <<>>) =>
        Len(tdf.rows) = 0

\* C21: in every row transform_delivery_data returns, on_time_status is true
\* exactly when delay_minutes is <= 0, whatever the duration computed from
\* delivered_datetime - scheduled_datetime.
TransformReturned ==
    fpc = "returned" /\ fname = "transform_delivery_data" /\ fres.kind = "returned"

C21_OnTimeFlag ==
    (TransformReturned /\ ~batch_empty(farg)) =>
        \A k \in 1..Len(fres.df.rows) :
            fres.df.rows[k]["on_time_status"] =
                {\E v \in fres.df.rows[k]["delay_minutes"] : v <= 0}

\* a returned batch with a late delivery of 60 minutes and a delivery of
\* 120 minutes that is on time
C21_Reached ==
    /\ TransformReturned
    /\ Len(fres.df.rows) = 2
    /\ fres.df.rows[1]["delivery_duration_minutes"] = {60}
    /\ fres.df.rows[1]["delay_minutes"] = {1}
    /\ fres.df.rows[1]["on_time_status"] = {FALSE}
    /\ fres.df.rows[2]["delivery_duration_minutes"] = {120}
    /\ fres.df.rows[2]["delay_minutes"] = {-5}
    /\ fres.df.rows[2]["on_time_status"] = {TRUE}

\* C23: the staging table exists only while the primary path is between its
\* creation and its merge: a call that created it returns without it,
\* whether it reports success or failure.
C23_StagingDiscarded ==
    temp.exists => (path = "primary" /\ pc \in {"p_stage", "p_merge"})

\* a primary call that created the staging table, failed to fill it and
\* has returned
C23_Reached ==
    /\ entry = "primary"
    /\ pc = "done"
    /\ path = "primary"
    /\ ~ret.success
    /\ muts = 2
    /\ ~temp.exists

\* C22: within one reconciler call the existing ids are read once, before
\* any other statement, and the batch is partitioned against the ids the
\* table held when the call began; staging, merge, delete and insert come
\* after the read.
C22_KeyFetchFirst ==
    /\ stmts # <<>> => stmts[1] = "select ids"
    /\ \A i \in 2..Len(stmts) : stmts[i] # "select ids"
    /\ (new_df # <<>> \/ update_df # <<>>) =>
           /\ stmts # <<>>
           /\ existing_ids = KeysOf(pre)
           /\ \A k \in 1..Len(new_df) : new_df[k].DELIVERY_ID \notin KeysOf(pre)
           /\ \A k \in 1..Len(update_df) : update_df[k].DELIVERY_ID \in KeysOf(pre)
    /\ Len(stmts) = 1 => table.rows = pre

\* a fallback call that read the ids, deleted and inserted
C22_Reached ==
    /\ path = "fallback"
    /\ stmts = <<"select ids", "delete", "insert">>
    /\ existing_ids # {}
    /\ ret.success

\* C24: the DELETEs of the alternative path take at most 500 ids each, no
\* id twice, and together all the update ids; when the insert begins every
\* row with an update id is gone from the table and the other rows are
\* there; the insert comes once, after the last DELETE.
C24_DeleteThenInsert ==
    /\ \A g \in 1..Len(d_groups) : Cardinality(d_groups[g]) <= 500
    /\ \A g, h \in 1..Len(d_groups) : g # h => d_groups[g] \cap d_groups[h] = {}
    /\ dpc \in {"insert", "done"} =>
           /\ UNION {d_groups[g] : g \in 1..Len(d_groups)} = SeqRange(d_ids)
           /\ Len(d_groups) = (Len(d_ids) + 499) \div 500
    /\ dpc = "insert" => KeysOf(d_table) = {0}
    /\ dpc = "loop" => BagCardinality(d_table) = 1 + Len(d_ids) - Min(d_i, Len(d_ids))
    /\ dpc = "done" =>
           /\ KeysOf(d_table) = 0..Len(d_ids)
           /\ BagCardinality(d_table) = 1 + Len(d_ids)

\* 1001 ids deleted in three statements, the insert not yet begun
C24_Reached ==
    /\ dpc = "insert"
    /\ Len(d_ids) = 1001
    /\ Len(d_groups) = 3
    /\ Cardinality(d_groups[1]) = 500
    /\ Cardinality(d_groups[3]) = 1

\* the statements of the two reconciler paths
ReconcilerSteps == {"p_begin", "p_fetch", "p_temp", "p_stage", "p_merge",
                    "f_begin", "f_fetch", "f_delete", "f_insert"}

\* C25: no statement of the transform changes the raw batch the caller
\* handed in, and no statement of the reconciler changes the batch handed to
\* it, whether the statement succeeds, fails or ends the run.
C25_InputsNotMutated ==
    [][/\ pc \in TransformSteps => tin' = tin
       /\ pc \in ReconcilerSteps => df' = df]_vars

\* a run whose transform derived columns and dropped none of the rows, and
\* whose reconciler loaded the projected batch
C25_Reached ==
    /\ entry = "etl"
    /\ pc = "done"
    /\ outcome = "True"
    /\ Ran("projection")
    /\ Len(tin.rows) > 0
    /\ ~has_column(tin, "delivery_duration_minutes")
    /\ pcalls > 0
    /\ ~empty(df)

\* at most one row per delivery_id
UniqueIds(rows) == Cardinality(KeysOf(rows)) = BagCardinality(rows)

\* the delivery_id values of the batch are pairwise distinct
DistinctBatch(d) == Cardinality(SeqRange(IdsOf(d.rows))) = Len(d.rows)

\* C26: when the table held at most one row per delivery_id as the call
\* began and the ids of the batch are pairwise distinct, the table holds at
\* most one row per delivery_id after a successful call, on either path.
C26_UniquenessPreserved ==
    (CallReturned /\ ret.success /\ UniqueIds(pre) /\ DistinctBatch(df)) =>
        UniqueIds(table.rows)

\* a successful call with two distinct ids, one of them in the table before
C26_Reached ==
    /\ CallReturned
    /\ ret.success
    /\ UniqueIds(pre)
    /\ DistinctBatch(df)
    /\ Len(df.rows) = 2
    /\ KeysOf(pre) \cap SeqRange(IdsOf(df.rows)) # {}
    /\ SeqRange(IdsOf(df.rows)) \ KeysOf(pre) # {}

\* C27: once a reconciler call has begun, every row the table held then
\* whose delivery_id is not in the batch is in the table, as many times and
\* with the same values, at each of the call's statements and after its
\* return, whatever the call reports.
C27_OutsideRowsUntouched ==
    (path # "none" /\ cur.path = path /\ cur.df = df) =>
        RowsWithIdNotIn(table.rows, SeqRange(IdsOf(df.rows)))
            = RowsWithIdNotIn(pre, SeqRange(IdsOf(df.rows)))

\* a successful call whose batch left a row of the table out
C27_Reached ==
    /\ CallReturned
    /\ ret.success
    /\ df = cur.df
    /\ KeysOf(pre) \ SeqRange(IdsOf(df.rows)) # {}
    /\ KeysOf(pre) \cap SeqRange(IdsOf(df.rows)) # {}

\* C28: a call that reports success for a batch with rows reports counts
\* that are not negative and whose sum is the number of rows of the batch.
C28_CountsCoverBatch ==
    (CallReturned /\ ret.success /\ ~empty(df)) =>
        /\ ret.new >= 0
        /\ ret.updated >= 0
        /\ ret.new + ret.updated = Len(df.rows)

\* a critical key of the frame is null in one of its rows
NullCriticalKey(d) ==
    \E c \in critical_keys : has_column(d, c) /\ \E k \in 1..Len(d.rows) : d.rows[k][c] = NaN

\* the validation of this run's transform has returned and left rows, one of
\* them with a null critical key
GateCase ==
    /\ TransformCurrent
    /\ Ran("key verification")
    /\ ~Ran("projection")
    /\ Len(tdf.rows) > 0
    /\ NullCriticalKey(tdf)

\* C29: when a row that survived the validation has a null delivery_id,
\* vehicle_id, driver_id or date_key, the transform returns an empty batch:
\* the projection is not reached with such a row, the run ends with False,
\* the load is not invoked and no statement writes to the warehouse.
C29_CriticalKeyGate ==
    /\ GateCase =>
           /\ transformed \in {"none", "empty"}
           /\ transformed = "empty" => (pc = "done" /\ outcome = "False" /\ df = NoFrame)
           /\ pcalls = 0 /\ fcalls = 0 /\ muts = 0
           /\ pc \in TransformSteps \cup {"done"}
    /\ (TransformCurrent /\ Ran("projection")) =>
           \A c \in critical_keys : has_column(tdf, str_upper(c)) =>
               \A k \in 1..Len(tdf.rows) : tdf.rows[k][str_upper(c)] # NaN

\* the gate has turned away a batch with a null delivery_id
C29_Reached ==
    /\ GateCase
    /\ Ran("compatibility check")
    /\ transformed = "empty"
    /\ \E k \in 1..Len(tdf.rows) : tdf.rows[k]["delivery_id"] = NaN

\* the part of C29 that holds for every batch: no load and no write
C29_NoLoadAfterNullKey ==
    /\ GateCase =>
           /\ transformed \in {"none", "empty", "raise"}
           /\ transformed # "none" => (pc = "done" /\ outcome = "False" /\ df = NoFrame)
           /\ pcalls = 0 /\ fcalls = 0 /\ muts = 0
           /\ pc \in TransformSteps \cup {"done"}
    /\ (TransformCurrent /\ Ran("projection")) =>
           \A c \in critical_keys : has_column(tdf, str_upper(c)) =>
               \A k \in 1..Len(tdf.rows) : tdf.rows[k][str_upper(c)] # NaN

\* the row count after a successful call is not the count before it plus
\* the reported new_count
CountDiscrepancy == BagCardinality(table.rows) # BagCardinality(pre) + ret.new

\* C30: a load in which one of the two paths reported success returns True,
\* whether or not the row counts agree with the reported new_count; it
\* returns False only when no path reported success.
C30_LoadIgnoresIntegrity ==
    (entry = "etl" /\ pc = "done" /\ path # "none") =>
        /\ ret.success => outcome = "True"
        /\ outcome = "True" => ret.success

\* a load that returned True although the counts disagree
C30_Reached ==
    /\ entry = "etl"
    /\ pc = "done"
    /\ path # "none"
    /\ ret.success
    /\ outcome = "True"
    /\ CountDiscrepancy

====
